---- MODULE Spec2Model ----
(***************************************************************************)
(* Model of RecordAccessService (services/access/service.py): the secret   *)
(* links and access grants of one parent and the user / guest              *)
(* access-request workflows.                                               *)
(*                                                                         *)
(* Python values: None is the empty tuple <<>>, a present value v of an    *)
(* optional is <<v>>; a dict is a function whose DOMAIN is its key set, so *)
(* "key in data" is  "key" \in DOMAIN data.                                *)
(***************************************************************************)
EXTENDS Integers, Sequences, FiniteSets, TLC

None == <<>>

Some(v) == <<v>>

\* ---------------------------------------------------------------- bounds
\* the clock (datetime.utcnow()) runs over 0..MaxNow
MaxNow == 3

\* number of secret links ever created on the parent
MaxLinks == 2

\* number of access requests ever created
MaxRequests == 2

\* number of guest tokens ever issued
MaxTokens == 2

\* number of access grants the parent holds at a time
MaxGrants == 2

\* number of links, grants, requests and tokens stored at a time where all
\* the operations of the service run next to each other
MaxStored == 2

\* ------------------------------------------------------------ error kinds
OK == "ok"

NotFound == "LookupError"

PermissionDenied == "PermissionDeniedError"

ErrFuture == "ValidationError: Expiration date must be set to the future"

ErrPostpone == "ValidationError: Cannot postpone expiration of links"

ErrPermRequired == "ValidationError: An access permission level is required"

ErrPermInvalid == "ValidationError: Invalid access permission level."

Duplicate == "DuplicateAccessRequestError"

\* --------------------------------------------------------------- payloads
\* the UTC offsets the datetimes of a payload come with
TZOffsets == {0, 1}

\* an aware datetime of a payload is <<wall clock reading, utc offset>>; the
\* payloads carry one datetime for every instant of the clock's range, the
\* offsets alternating
Instants == {<<t + (t % 2), t % 2>> : t \in 0..MaxNow}

\* the scenario's caller picks from all offsets, and from further ahead
ScnInstants == (0..(MaxNow + 2)) \X TZOffsets

\* arrow.get(expires_at).to("utc").datetime.replace(tzinfo=None)
ToUTC(instant) == instant[1] - instant[2]

\* permission levels of secret links; "bogus" stands for any other string
AllowedLevels == {"view", "preview", "edit"}

\* dict.get(key) and dict.get(key, default)
Get(data, key, default) == IF key \in DOMAIN data THEN data[key] ELSE default

\* the values of "expires_at" in a loaded payload: null or an aware datetime
ExpiresValues == {None} \cup Instants

\* loaded payloads of the expiration-centred specification
ExpPayloads ==
    LET perms == {[permission |-> p] : p \in {"view", "bogus"}} \cup {<<>>}
        exps  == {[expires_at |-> e] : e \in ExpiresValues} \cup {<<>>}
    IN  {p @@ e : p \in perms, e \in exps}

\* ------------------------------------------------------------------ state
VARIABLES
    now,         \* datetime.utcnow(), in ticks
    links,       \* parent.access.links: sequence of secret links
    nextLinkId,  \* the id the next created SecretLink gets
    ret,         \* the last invocation: operation, error kind, the link addressed
                 \* and the expires_at it had before
    scn,         \* the caller that walks through the five-step link scenario:
                 \* steps done, the instants it chose, the last step's outcome
    requests,    \* the stored requests of the request service, in creation order
    tokens,      \* the stored AccessRequestTokens
    nextToken,   \* the token string the next AccessRequestToken gets
    calls,       \* the concurrent invocations of the request handlers: where
                 \* each is, and what its duplicate detection left to do
    revoked,     \* the ids of the secret links whose capability was revoked
    grants       \* parent.access.grants: sequence of access grants

vars == <<now, links, nextLinkId, ret, scn, requests, tokens, nextToken, calls,
          revoked, grants>>

grantVars == <<grants>>

linkVars == <<links, nextLinkId, scn, revoked>>

requestVars == <<requests, tokens, nextToken, calls>>

\* -------------------------------------------------- expiration validation
\* (mutants of the validation, used to show that the properties below
\* depend on it, are defined next to the definitions they replace)
ValidationFails(err) == [err |-> err, expires_at |-> None]

ValidationPasses(e) == [err |-> OK, expires_at |-> e]

\* mutant: the check for an extended expiration is dropped
validate_without_extends_check(expires_at, is_specified, secret_link, now1, now2) ==
    LET converted == expires_at # None /\ is_specified
        e == IF converted THEN Some(ToUTC(expires_at)) ELSE expires_at
    IN  IF converted /\ e[1] < now1
        THEN ValidationFails(ErrFuture)
        ELSE IF secret_link = None
        THEN ValidationPasses(e)
        ELSE LET old == secret_link[1].expires_at
             IN  IF is_specified /\ e = None /\ old # None
                 THEN ValidationFails(ErrPostpone)
                 ELSE IF e # None /\ e[1] < now2
                 THEN ValidationFails(ErrFuture)
                 ELSE ValidationPasses(e)

\* mutant: giving an expiration to a link that has none counts as postponing
validate_rejecting_first_expiration(expires_at, is_specified, secret_link, now1, now2) ==
    LET converted == expires_at # None /\ is_specified
        e == IF converted THEN Some(ToUTC(expires_at)) ELSE expires_at
    IN  IF converted /\ e[1] < now1
        THEN ValidationFails(ErrFuture)
        ELSE IF secret_link = None
        THEN ValidationPasses(e)
        ELSE LET old == secret_link[1].expires_at
             IN  IF \/ is_specified /\ e = None /\ old # None
                    \/ e # None /\ old = None
                    \/ e # None /\ old # None /\ e[1] > old[1]
                 THEN ValidationFails(ErrPostpone)
                 ELSE IF e # None /\ e[1] < now2
                 THEN ValidationFails(ErrFuture)
                 ELSE ValidationPasses(e)

\* _validate_secret_link_expires_at; now1 and now2 are the two readings of
\* datetime.utcnow() (lines 101 and 135), now1 <= now2
validate_secret_link_expires_at(expires_at, is_specified, secret_link, now1, now2) ==
    LET converted == expires_at # None /\ is_specified
        e == IF converted THEN Some(ToUTC(expires_at)) ELSE expires_at
    IN  IF converted /\ e[1] < now1
        THEN ValidationFails(ErrFuture)
        ELSE IF secret_link = None
        THEN ValidationPasses(e)
        ELSE LET old == secret_link[1].expires_at
                 introduces_expiration ==
                     is_specified /\ e = None /\ old # None
                 extends_existing_expiration ==
                     e # None /\ old # None /\ e[1] > old[1]
                 increases_expiration ==
                     introduces_expiration \/ extends_existing_expiration
             IN  IF increases_expiration
                 THEN ValidationFails(ErrPostpone)
                 ELSE IF e # None /\ e[1] < now2
                 THEN ValidationFails(ErrFuture)
                 ELSE ValidationPasses(e)

\* ------------------------------------------------------------ link lookup
\* link_ids = [link.link_id for link in parent.access.links]
link_ids(ls) == [i \in 1..Len(ls) |-> ls[i].link_id]

\* link_ids.index(link_id): position of the first link with that id, 0 if none
link_index(ls, link_id) ==
    IF \E i \in 1..Len(ls) : ls[i].link_id = link_id
    THEN CHOOSE i \in 1..Len(ls) :
             /\ ls[i].link_id = link_id
             /\ \A j \in 1..(i - 1) : ls[j].link_id # link_id
    ELSE 0

\* list.pop(idx)
Pop(s, idx) == [i \in 1..(Len(s) - 1) |-> IF i < idx THEN s[i] ELSE s[i + 1]]

\* --------------------------------------------------------------- handlers
\* mutant: the related records are indexed before anything is committed
registered_indexing_first(has_record) ==
    <<"index related records", "commit parent">>
        \o (IF has_record THEN <<"commit record">> ELSE <<>>)

\* what a mutating handler registers with its unit of work before it
\* returns: uow.register(RecordCommitOp(parent)), "if record:"
\* uow.register(RecordCommitOp(record)), and _index_related_records
registered(has_record) ==
    <<"commit parent">>
        \o (IF has_record THEN <<"commit record">> ELSE <<>>)
        \o <<"index related records">>

\* the registrations for a record that resolved
CommitAndIndex == registered(TRUE)

\* a handler's outcome: error kind, the parent's links as committed (the
\* links before the call when the unit of work is aborted by an error), and
\* the registered operations the unit of work carried out
LinkOutcome(err, ls) ==
    [err |-> err, links |-> ls,
     done |-> IF err = OK THEN CommitAndIndex ELSE <<>>]

\* the expires_at of the link with that id, None when there is no such link
\* or it has none
expires_at_of(ls, link_id) ==
    IF link_index(ls, link_id) = 0 THEN None
    ELSE ls[link_index(ls, link_id)].expires_at

\* create_secret_link, storing no origin
create_secret_link_without_origin(ls, new_id, found, can_manage, data, now1) ==
    IF ~found THEN LinkOutcome(NotFound, ls)
    ELSE IF ~can_manage THEN LinkOutcome(PermissionDenied, ls)
    ELSE LET v == validate_secret_link_expires_at(
                      Get(data, "expires_at", None), TRUE, None, now1, now1)
         IN  IF v.err # OK THEN LinkOutcome(v.err, ls)
             ELSE IF "permission" \notin DOMAIN data
             THEN LinkOutcome(ErrPermRequired, ls)
             ELSE IF data.permission \notin AllowedLevels
             THEN LinkOutcome(ErrPermInvalid, ls)
             ELSE LinkOutcome(OK, Append(ls,
                      [link_id          |-> new_id,
                       permission_level |-> data.permission,
                       origin           |-> None,
                       description      |-> Get(data, "description", ""),
                       expires_at       |-> v.expires_at,
                       extra_data       |-> Get(data, "extra_data", <<>>)]))

\* create_secret_link
create_secret_link(ls, new_id, found, can_manage, data, now1) ==
    IF ~found THEN LinkOutcome(NotFound, ls)
    ELSE IF ~can_manage THEN LinkOutcome(PermissionDenied, ls)
    ELSE LET v == validate_secret_link_expires_at(
                      Get(data, "expires_at", None), TRUE, None, now1, now1)
         IN  IF v.err # OK THEN LinkOutcome(v.err, ls)
             ELSE IF "permission" \notin DOMAIN data
             THEN LinkOutcome(ErrPermRequired, ls)
             ELSE IF data.permission \notin AllowedLevels
             THEN LinkOutcome(ErrPermInvalid, ls)
             ELSE LinkOutcome(OK, Append(ls,
                      [link_id          |-> new_id,
                       permission_level |-> data.permission,
                       origin           |-> IF "origin" \in DOMAIN data
                                            THEN Some(data.origin) ELSE None,
                       description      |-> Get(data, "description", ""),
                       expires_at       |-> v.expires_at,
                       extra_data       |-> Get(data, "extra_data", <<>>)]))

\* mutant: "link.expires_at or expires_at", the operands swapped
update_secret_link_keeping_expiration(ls, found, can_manage, link_id, data, now1, now2) ==
    IF ~found THEN LinkOutcome(NotFound, ls)
    ELSE IF ~can_manage THEN LinkOutcome(PermissionDenied, ls)
    ELSE LET link_idx == link_index(ls, link_id)
         IN  IF link_idx = 0 THEN LinkOutcome(NotFound, ls)
             ELSE
             LET link == ls[link_idx]
                 v == validate_secret_link_expires_at(
                          Get(data, "expires_at", None),
                          "expires_at" \in DOMAIN data,
                          Some(link), now1, now2)
             IN  IF v.err # OK THEN LinkOutcome(v.err, ls)
                 ELSE LinkOutcome(OK, [ls EXCEPT ![link_idx] =
                          [link EXCEPT
                              !.expires_at =
                                  IF link.expires_at # None
                                  THEN link.expires_at ELSE v.expires_at,
                              !.permission_level =
                                  IF "permission" \in DOMAIN data
                                  THEN data.permission ELSE link.permission_level,
                              !.description =
                                  Get(data, "description", link.description)]])

\* update_secret_link, replacing the link's extra_data as well
update_secret_link_replacing_extra_data(ls, found, can_manage, link_id, data, now1, now2) ==
    IF ~found THEN LinkOutcome(NotFound, ls)
    ELSE IF ~can_manage THEN LinkOutcome(PermissionDenied, ls)
    ELSE LET link_idx == link_index(ls, link_id)
         IN  IF link_idx = 0 THEN LinkOutcome(NotFound, ls)
             ELSE
             LET link == ls[link_idx]
                 has_permission == "permission" \in DOMAIN data
                 v == validate_secret_link_expires_at(
                          Get(data, "expires_at", None),
                          "expires_at" \in DOMAIN data,
                          Some(link), now1, now2)
             IN  IF v.err # OK THEN LinkOutcome(v.err, ls)
                 ELSE LinkOutcome(OK, [ls EXCEPT ![link_idx] =
                          [link EXCEPT
                              !.expires_at =
                                  IF v.expires_at # None
                                  THEN v.expires_at ELSE link.expires_at,
                              !.permission_level =
                                  IF has_permission
                                  THEN data.permission ELSE link.permission_level,
                              !.description =
                                  Get(data, "description", link.description),
                              !.extra_data =
                                  Get(data, "extra_data", link.extra_data)]])

\* update_secret_link
update_secret_link(ls, found, can_manage, link_id, data, now1, now2) ==
    IF ~found THEN LinkOutcome(NotFound, ls)
    ELSE IF ~can_manage THEN LinkOutcome(PermissionDenied, ls)
    ELSE LET link_idx == link_index(ls, link_id)
         IN  IF link_idx = 0 THEN LinkOutcome(NotFound, ls)
             ELSE
             LET link == ls[link_idx]
                 \* data.get("permission"), None when the key is absent
                 has_permission == "permission" \in DOMAIN data
                 v == validate_secret_link_expires_at(
                          Get(data, "expires_at", None),
                          "expires_at" \in DOMAIN data,
                          Some(link), now1, now2)
             IN  IF v.err # OK THEN LinkOutcome(v.err, ls)
                 ELSE LinkOutcome(OK, [ls EXCEPT ![link_idx] =
                          [link EXCEPT
                              !.expires_at =
                                  IF v.expires_at # None
                                  THEN v.expires_at ELSE link.expires_at,
                              !.permission_level =
                                  IF has_permission
                                  THEN data.permission ELSE link.permission_level,
                              !.description =
                                  Get(data, "description", link.description)]])

\* what a handler that can revoke adds to its outcome: the ids of the links
\* whose capability it revoked (link.revoke())
Revoking(outcome, ids) == outcome @@ [revoked |-> ids]

\* mutant: the link is taken off the parent and its capability is kept
delete_secret_link_without_revoke(ls, found, can_manage, link_id) ==
    IF ~found THEN Revoking(LinkOutcome(NotFound, ls), {})
    ELSE IF ~can_manage THEN Revoking(LinkOutcome(PermissionDenied, ls), {})
    ELSE LET link_idx == link_index(ls, link_id)
         IN  IF link_idx = 0 THEN Revoking(LinkOutcome(NotFound, ls), {})
             ELSE Revoking(LinkOutcome(OK, Pop(ls, link_idx)), {})

\* mutant: the link id is looked up before the permission is required
delete_secret_link_looking_up_first(ls, found, can_manage, link_id) ==
    IF ~found THEN Revoking(LinkOutcome(NotFound, ls), {})
    ELSE LET link_idx == link_index(ls, link_id)
         IN  IF link_idx = 0 THEN Revoking(LinkOutcome(NotFound, ls), {})
             ELSE IF ~can_manage
             THEN Revoking(LinkOutcome(PermissionDenied, ls), {})
             ELSE Revoking(LinkOutcome(OK, Pop(ls, link_idx)),
                           {ls[link_idx].link_id})

\* delete_secret_link
delete_secret_link(ls, found, can_manage, link_id) ==
    IF ~found THEN Revoking(LinkOutcome(NotFound, ls), {})
    ELSE IF ~can_manage THEN Revoking(LinkOutcome(PermissionDenied, ls), {})
    ELSE LET link_idx == link_index(ls, link_id)
         IN  IF link_idx = 0 THEN Revoking(LinkOutcome(NotFound, ls), {})
             ELSE Revoking(LinkOutcome(OK, Pop(ls, link_idx)),
                           {ls[link_idx].link_id})

\* the outcome of a handler that only reads: it has no unit of work and
\* registers nothing
LinkRead(err, result) == [err |-> err, result |-> result, done |-> <<>>]

\* read_secret_link: the outcome carries the link read
read_secret_link(ls, found, can_manage, link_id) ==
    IF ~found THEN LinkRead(NotFound, None)
    ELSE IF ~can_manage THEN LinkRead(PermissionDenied, None)
    ELSE LET link_idx == link_index(ls, link_id)
         IN  IF link_idx = 0 THEN LinkRead(NotFound, None)
             ELSE LinkRead(OK, Some(ls[link_idx]))

\* read_all_secret_links: the outcome carries the links read
read_all_secret_links(ls, found, can_manage) ==
    IF ~found THEN LinkRead(NotFound, None)
    ELSE IF ~can_manage THEN LinkRead(PermissionDenied, None)
    ELSE LinkRead(OK, Some(ls))

\* ---------------------------------------------------------------- actions
\* link ids a caller may name: the ids ever issued and one never issued
LinkIdArgs == 1..(MaxLinks + 1)

\* the request-handling contexts that can run at the same time
Procs == {"p1", "p2"}

\* an invocation that has not started or has returned
Idle == [pc |-> "idle"]

\* what a caller's record id and identity come to: the record resolves or
\* not (get_parent_and_record_or_draft), and if it does the identity may or
\* may not manage it (require_permission): <<found, can_manage>>
Callers == {<<FALSE, FALSE>>, <<TRUE, FALSE>>, <<TRUE, TRUE>>}

Init ==
    /\ now = 0
    /\ links = <<>>
    /\ nextLinkId = 1
    /\ ret = [op |-> "init", err |-> OK]
    /\ scn = [step |-> 0, t1 |-> None, t |-> None, err |-> OK]
    /\ requests = <<>>
    /\ tokens = {}
    /\ nextToken = 1
    /\ calls = [p \in Procs |-> Idle]
    /\ revoked = {}
    /\ grants = <<>>

\* time passes between invocations
Tick ==
    /\ now < MaxNow
    /\ now' = now + 1
    /\ ret' = [op |-> "tick", err |-> OK]
    /\ UNCHANGED <<linkVars, requestVars, grantVars>>

CreateSecretLink(payloads) ==
    \E who \in Callers, data \in payloads :
        LET r == create_secret_link(links, nextLinkId, who[1], who[2], data, now)
        IN  /\ r.err = OK => nextLinkId <= MaxLinks
            /\ links' = r.links
            /\ nextLinkId' = IF r.err = OK THEN nextLinkId + 1 ELSE nextLinkId
            /\ ret' = [op |-> "create_secret_link", err |-> r.err,
                       link_id |-> nextLinkId, old_expires_at |-> None]
            /\ UNCHANGED <<now, scn, revoked, requestVars, grantVars>>

UpdateSecretLink(payloads) ==
    \E who \in Callers, link_id \in LinkIdArgs, data \in payloads,
       now2 \in {now, now + 1} :
        LET r == update_secret_link(links, who[1], who[2], link_id, data, now, now2)
        IN  /\ now2 <= MaxNow
            /\ links' = r.links
            /\ now' = now2
            /\ ret' = [op |-> "update_secret_link", err |-> r.err,
                       link_id |-> link_id,
                       old_expires_at |-> expires_at_of(links, link_id)]
            /\ UNCHANGED <<nextLinkId, scn, revoked, requestVars, grantVars>>

DeleteSecretLink ==
    \E who \in Callers, link_id \in LinkIdArgs :
        LET r == delete_secret_link(links, who[1], who[2], link_id)
        IN  /\ links' = r.links
            /\ revoked' = revoked \cup r.revoked
            /\ ret' = [op |-> "delete_secret_link", err |-> r.err,
                       link_id |-> link_id]
            /\ UNCHANGED <<now, nextLinkId, scn, requestVars, grantVars>>

\* ------------------------------------------------- the five-step scenario
\* One caller with "manage" on the record creates a link and updates it four
\* times, time passing in between; scn.t1 is the instant of step 2, scn.t the
\* instant of the last step, both in UTC, scn.err the last step's outcome.

ScnUpdate(step, data, t, now2) ==
    LET r == update_secret_link(links, TRUE, TRUE, 1, data, now, now2)
    IN  /\ scn.step = step - 1
        /\ now2 <= MaxNow
        /\ links' = r.links
        /\ now' = now2
        /\ ret' = [op |-> "update_secret_link", err |-> r.err, link_id |-> 1,
                   old_expires_at |-> expires_at_of(links, 1)]
        /\ scn' = [step |-> step, t |-> t, err |-> r.err,
                   t1 |-> IF step = 2 THEN t ELSE scn.t1]
        /\ UNCHANGED <<nextLinkId, revoked, requestVars, grantVars>>

\* (1) create a link with permission "view" and no expires_at
ScnCreate ==
    LET r == create_secret_link(links, nextLinkId, TRUE, TRUE,
                                [permission |-> "view"], now)
    IN  /\ scn.step = 0
        /\ links' = r.links
        /\ nextLinkId' = IF r.err = OK THEN nextLinkId + 1 ELSE nextLinkId
        /\ ret' = [op |-> "create_secret_link", err |-> r.err,
                   link_id |-> nextLinkId, old_expires_at |-> None]
        /\ scn' = [scn EXCEPT !.step = 1, !.err = r.err]
        /\ UNCHANGED <<now, revoked, requestVars, grantVars>>

\* (2) set expires_at to a future instant T1
ScnSetFuture ==
    \E t1 \in ScnInstants, now2 \in {now, now + 1} :
        /\ ToUTC(t1) > now2
        /\ ScnUpdate(2, [expires_at |-> t1], Some(ToUTC(t1)), now2)

\* (3) set expires_at to null
ScnRemove ==
    \E now2 \in {now, now + 1} :
        ScnUpdate(3, [expires_at |-> None], None, now2)

\* (4) set expires_at to an instant T2 later than T1
ScnExtend ==
    \E t2 \in ScnInstants, now2 \in {now, now + 1} :
        /\ scn.t1 # None
        /\ ToUTC(t2) > scn.t1[1]
        /\ ScnUpdate(4, [expires_at |-> t2], Some(ToUTC(t2)), now2)

\* (5) set expires_at to an instant T0, now <= T0 < T1
ScnReduce ==
    \E t0 \in ScnInstants, now2 \in {now, now + 1} :
        /\ scn.t1 # None
        /\ now2 <= ToUTC(t0)
        /\ ToUTC(t0) < scn.t1[1]
        /\ ScnUpdate(5, [expires_at |-> t0], Some(ToUTC(t0)), now2)

NextScenario ==
    \/ Tick
    \/ ScnCreate
    \/ ScnSetFuture
    \/ ScnRemove
    \/ ScnExtend
    \/ ScnReduce

SpecScenario == Init /\ [][NextScenario]_vars

\* ------------------------------------------------ the fields of the links
\* a payload that names every field of a link
FullLinkPayload ==
    [permission |-> "view", origin |-> "api", description |-> "d",
     extra_data |-> <<"x">>, expires_at |-> <<MaxNow, 0>>]

\* loaded payloads of the field-centred specification: empty, full, with a
\* level that is not allowed, with a description only, and with an
\* expires_at in the past only
FieldPayloads ==
    {<<>>, FullLinkPayload, [permission |-> "bogus"], [description |-> "e"],
     [expires_at |-> <<0, 1>>]}

\* the field_name of a ValidationError, "" for the other outcomes
field_name(err) ==
    IF err \in {ErrFuture, ErrPostpone} THEN "expires_at"
    ELSE IF err \in {ErrPermRequired, ErrPermInvalid} THEN "permission"
    ELSE ""

NextLinkFields ==
    \/ CreateSecretLink(FieldPayloads)
    \/ UpdateSecretLink(FieldPayloads)
    \/ DeleteSecretLink

SpecLinkFields == Init /\ [][NextLinkFields]_vars

\* ----------------------------------------------------------- access grants
ErrSubject == "ValidationError: Could not find the specified subject."

\* the subject types of a grant payload; "bogus" stands for any other string
SubjectTypes == {"user", "role", "system_role", "bogus"}

SubjectIds == {"s1", "s2"}

GrantPermissions == {"view"}

\* What the subject a call names comes to: what the read of the users or
\* groups service answers for the calling identity ("found", LookupError or
\* PermissionDeniedError, the latter also masking a missing subject), and
\* whether the subject exists, which is what resolving a system role or the
\* subject of a new grant finds out.
SubjectLookups ==
    {[read |-> "found", exists |-> TRUE],
     [read |-> PermissionDenied, exists |-> TRUE],
     [read |-> PermissionDenied, exists |-> FALSE],
     [read |-> NotFound, exists |-> FALSE]}

\* loaded payloads of create_grant and of a full update_grant
GrantPayloads ==
    {[subject |-> [type |-> t, id |-> "s1"], permission |-> perm, origin |-> None] :
        t \in SubjectTypes \ {"role"}, perm \in GrantPermissions}

\* payloads of a partial update_grant
PartialGrantPayloads ==
    {<<>>, [permission |-> "manage"]}
    \cup {[subject |-> [type |-> t]] : t \in {"role", "bogus"}}
    \cup {[subject |-> [id |-> sid]] : sid \in SubjectIds}

\* the indices a caller may name
GrantIdArgs == (0 - MaxGrants - 1)..MaxGrants

\* a grant as parent.access.grants holds it
Grant(subject_type, subject_id, permission, origin) ==
    [subject_type |-> subject_type, subject_id |-> subject_id,
     permission |-> permission, origin |-> origin]

\* 0 <= grant_id < len(parent.access.grants)
InRange(gs, grant_id) == 0 <= grant_id /\ grant_id < Len(gs)

\* the position a list subscript addresses in a list of length n, counted
\* from 1; 0 when the subscript raises IndexError. A negative subscript
\* counts from the end of the list.
Subscript(n, idx) ==
    IF 0 <= idx /\ idx < n THEN idx + 1
    ELSE IF idx < 0 /\ 0 - n <= idx THEN n + idx + 1
    ELSE 0

\* mutant: a subject of an unknown type passes the check
check_grant_subject_accepting_unknown(grant, lookup) ==
    IF grant.subject_type \in {"user", "role"} THEN lookup.read = "found"
    ELSE IF grant.subject_type = "system_role" THEN lookup.exists
    ELSE TRUE

\* _check_grant_subject
check_grant_subject(grant, lookup) ==
    IF grant.subject_type \in {"user", "role"} THEN lookup.read = "found"
    ELSE IF grant.subject_type = "system_role" THEN lookup.exists
    ELSE FALSE

\* Grant.create(..., resolve_subject=True) raises LookupError
resolve_fails(subject_type, lookup) ==
    \/ subject_type \notin {"user", "role", "system_role"}
    \/ ~lookup.exists

\* what the body of a handler leaves when it returns or raises: the error
\* kind, the grants of the parent object in memory, the operations it
\* registered with the unit of work, and its result
Body(err, gs, ops, result) ==
    [err |-> err, grants |-> gs, ops |-> ops, result |-> result]

\* mutant: what the body staged is committed although it raised
unit_of_work_committing_always(persisted, b) ==
    [err |-> b.err,
     grants |-> b.grants,
     done |-> b.ops,
     staged |-> b.grants,
     result |-> IF b.err = OK THEN b.result ELSE None]

\* @unit_of_work(): the body's changes and registered operations take effect
\* when it returns, and are discarded when it raises
unit_of_work(persisted, b) ==
    [err |-> b.err,
     grants |-> IF b.err = OK THEN b.grants ELSE persisted,
     done |-> IF b.err = OK THEN b.ops ELSE <<>>,
     staged |-> b.grants,
     result |-> IF b.err = OK THEN b.result ELSE None]

\* a handler without unit of work: it reads and registers nothing
Reads(err, gs, result) ==
    [err |-> err, grants |-> gs, done |-> <<>>, staged |-> gs, result |-> result]

\* create_grant's body, putting the new grant in front
create_grant_body_prepending(gs, found, can_manage, data, lookup) ==
    IF ~found THEN Body(NotFound, gs, <<>>, None)
    ELSE IF ~can_manage THEN Body(PermissionDenied, gs, <<>>, None)
    ELSE LET grant == Grant(data.subject.type, data.subject.id,
                            data.permission, Get(data, "origin", None))
             created == <<grant>> \o gs
         IN  IF ~check_grant_subject(grant, lookup)
             THEN Body(ErrSubject, created, <<>>, None)
             ELSE Body(OK, created, CommitAndIndex, Some(grant))

\* the body of create_grant
create_grant_body(gs, found, can_manage, data, lookup) ==
    IF ~found THEN Body(NotFound, gs, <<>>, None)
    ELSE IF ~can_manage THEN Body(PermissionDenied, gs, <<>>, None)
    ELSE LET grant == Grant(data.subject.type, data.subject.id,
                            data.permission, Get(data, "origin", None))
             \* parent.access.grants.create appends the grant
             created == Append(gs, grant)
         IN  IF ~check_grant_subject(grant, lookup)
             THEN Body(ErrSubject, created, <<>>, None)
             ELSE Body(OK, created, CommitAndIndex, Some(grant))

\* create_grant
create_grant(gs, found, can_manage, data, lookup) ==
    unit_of_work(gs, create_grant_body(gs, found, can_manage, data, lookup))

\* mutant: the permission is not required
read_grant_without_permission(gs, found, can_manage, grant_id) ==
    IF ~found THEN Reads(NotFound, gs, None)
    ELSE IF ~InRange(gs, grant_id) THEN Reads(NotFound, gs, None)
    ELSE Reads(OK, gs, Some(gs[grant_id + 1]))

\* read_grant
read_grant(gs, found, can_manage, grant_id) ==
    IF ~found THEN Reads(NotFound, gs, None)
    ELSE IF ~can_manage THEN Reads(PermissionDenied, gs, None)
    ELSE IF ~InRange(gs, grant_id) THEN Reads(NotFound, gs, None)
    ELSE Reads(OK, gs, Some(gs[grant_id + 1]))

\* the data update_grant validates, the subject id always the old grant's
merged_grant_data_keeping_subject_id(data, partial, old_grant) ==
    IF partial
    THEN [permission |-> Get(data, "permission", old_grant.permission),
          subject |->
              [type |-> Get(Get(data, "subject", <<>>), "type",
                            old_grant.subject_type),
               id |-> old_grant.subject_id],
          origin |-> Get(data, "origin", old_grant.origin)]
    ELSE data

\* the data update_grant validates: with partial, the payload completed from
\* the old grant
merged_grant_data(data, partial, old_grant) ==
    IF partial
    THEN [permission |-> Get(data, "permission", old_grant.permission),
          subject |->
              [type |-> Get(Get(data, "subject", <<>>), "type",
                            old_grant.subject_type),
               id |-> Get(Get(data, "subject", <<>>), "id",
                          old_grant.subject_id)],
          origin |-> Get(data, "origin", old_grant.origin)]
    ELSE data

\* the body of update_grant; the subscript parent.access.grants[grant_id]
\* raises IndexError, a LookupError, when it addresses nothing
update_grant_body(gs, found, can_manage, grant_id, data, partial, lookup) ==
    IF ~found THEN Body(NotFound, gs, <<>>, None)
    ELSE IF ~can_manage THEN Body(PermissionDenied, gs, <<>>, None)
    ELSE LET pos == Subscript(Len(gs), grant_id)
         IN  IF pos = 0 THEN Body(NotFound, gs, <<>>, None)
             ELSE
             LET d == merged_grant_data(data, partial, gs[pos])
                 new_grant == Grant(d.subject.type, d.subject.id,
                                    d.permission, d.origin)
             IN  IF resolve_fails(d.subject.type, lookup)
                 THEN Body(ErrSubject, gs, <<>>, None)
                 ELSE Body(OK, [gs EXCEPT ![pos] = new_grant],
                           CommitAndIndex, Some(new_grant))

\* update_grant
update_grant(gs, found, can_manage, grant_id, data, partial, lookup) ==
    unit_of_work(gs, update_grant_body(gs, found, can_manage, grant_id, data,
                                       partial, lookup))

\* read_all_grants
read_all_grants(gs, found, can_manage) ==
    IF ~found THEN Reads(NotFound, gs, None)
    ELSE IF ~can_manage THEN Reads(PermissionDenied, gs, None)
    ELSE Reads(OK, gs, Some(gs))

\* mutant: "pop()", which takes the last grant off
delete_grant_body_popping_last(gs, found, can_manage, grant_id) ==
    IF ~found THEN Body(NotFound, gs, <<>>, None)
    ELSE IF ~can_manage THEN Body(PermissionDenied, gs, <<>>, None)
    ELSE IF ~InRange(gs, grant_id) THEN Body(NotFound, gs, <<>>, None)
    ELSE Body(OK, Pop(gs, Len(gs)), CommitAndIndex, None)

\* the body of delete_grant
delete_grant_body(gs, found, can_manage, grant_id) ==
    IF ~found THEN Body(NotFound, gs, <<>>, None)
    ELSE IF ~can_manage THEN Body(PermissionDenied, gs, <<>>, None)
    ELSE IF ~InRange(gs, grant_id) THEN Body(NotFound, gs, <<>>, None)
    ELSE Body(OK, Pop(gs, grant_id + 1), CommitAndIndex, None)

\* delete_grant
delete_grant(gs, found, can_manage, grant_id) ==
    unit_of_work(gs, delete_grant_body(gs, found, can_manage, grant_id))

\* ------------------------------------------------------------ grant actions
\* what ret keeps of a grant invocation: the operation, the error kind, the
\* index named, and what the read of the subject answered
GrantRet(op, r, grant_id, lookup) ==
    [op |-> op, err |-> r.err, grant_id |-> grant_id, read |-> lookup.read]

CreateGrant(payloads, lookups) ==
    \E who \in Callers, data \in payloads, lookup \in lookups :
        LET r == create_grant(grants, who[1], who[2], data, lookup)
        IN  /\ Len(r.grants) <= MaxGrants
            /\ grants' = r.grants
            /\ ret' = GrantRet("create_grant", r, Len(grants), lookup)
            /\ UNCHANGED <<now, linkVars, requestVars>>

UpdateGrant(ids, payloads, partials, lookups) ==
    \E who \in Callers, grant_id \in ids, lookup \in lookups :
        \/ \E data \in payloads :
              LET r == update_grant(grants, who[1], who[2], grant_id, data,
                                    FALSE, lookup)
              IN  /\ grants' = r.grants
                  /\ ret' = GrantRet("update_grant", r, grant_id, lookup)
                  /\ UNCHANGED <<now, linkVars, requestVars>>
        \/ \E data \in partials :
              LET r == update_grant(grants, who[1], who[2], grant_id, data,
                                    TRUE, lookup)
              IN  /\ grants' = r.grants
                  /\ ret' = GrantRet("update_grant", r, grant_id, lookup)
                  /\ UNCHANGED <<now, linkVars, requestVars>>

DeleteGrant(ids) ==
    \E who \in Callers, grant_id \in ids :
        LET r == delete_grant(grants, who[1], who[2], grant_id)
        IN  /\ grants' = r.grants
            /\ ret' = GrantRet("delete_grant", r, grant_id, [read |-> "none"])
            /\ UNCHANGED <<now, linkVars, requestVars>>

\* the grants of the parent
NextGrants ==
    \/ CreateGrant(GrantPayloads, SubjectLookups)
    \/ UpdateGrant(GrantIdArgs, GrantPayloads, PartialGrantPayloads,
                   SubjectLookups)
    \/ DeleteGrant(GrantIdArgs)

SpecGrants == Init /\ [][NextGrants]_vars

\* -------------------------------------------------------- access requests
Users == {"u1", "u2"}

Emails == {"e1", "e2"}

Records == {"r1", "r2"}

\* the record ids a caller may name: the records and an id that resolves to
\* nothing
RecordIdArgs == Records \cup {"r0"}

\* the token strings a caller may present: those ever issued and one never
\* issued
TokenArgs == 1..(MaxTokens + 1)

\* record.parent.access.owner.resolve(): the owner of r2 cannot be resolved
owner_of(rec) == IF rec = "r1" THEN Some("owner") ELSE None

UserAccessRequestType == "user-access-request"

GuestAccessRequestType == "guest-access-request"

\* timedelta(hours=6)
ShelfLifeHours == 6

\* request.is_open: the status is an open one
is_open(request) == request.status = "submitted"

\* the duplicate query: the open requests of that type created by that
\* requester on that record
open_requests(reqs, created_by, topic, type_id) ==
    SelectSeq(reqs, LAMBDA r :
        /\ r.created_by = created_by
        /\ r.topic = topic
        /\ r.type = type_id
        /\ is_open(r))

\* [str(r.id) for r in requests]
ids_of(reqs) == [i \in 1..Len(reqs) |-> reqs[i].id]

\* current_requests_service.create: a new request, in its draft status;
\* token is the "token" of the payload, None in the user flow
service_create(reqs, type_id, created_by, topic, token) ==
    Append(reqs, [id         |-> Len(reqs) + 1,
                  type       |-> type_id,
                  created_by |-> created_by,
                  topic      |-> topic,
                  receiver   |-> owner_of(topic),
                  token      |-> token,
                  status     |-> "created"])

\* current_requests_service.execute_action(identity, request.id, "submit")
execute_submit(reqs, id) ==
    [i \in 1..Len(reqs) |->
        IF reqs[i].id = id THEN [reqs[i] EXCEPT !.status = "submitted"]
        ELSE reqs[i]]

\* AccessRequestToken.get_by_token: None for an unknown or expired token
get_by_token(toks, token) ==
    IF \E t \in toks : t.token = token /\ ~t.expired
    THEN Some(CHOOSE t \in toks : t.token = token /\ ~t.expired)
    ELSE None

\* AccessRequestToken.create
token_create(toks, token, email, record_pid) ==
    toks \cup {[token      |-> token,
                email      |-> email,
                record_pid |-> record_pid,
                shelf_life |-> ShelfLifeHours,
                expired    |-> FALSE]}

\* a request handler's outcome: error kind, the requests and tokens as
\* committed, the ids carried by a DuplicateAccessRequestError, the id of
\* the returned request (None when the handler returns None or raises) and
\* the e-mails dispatched when the unit of work commits
RequestOutcome(err, reqs, toks, ids, result, mails) ==
    [err |-> err, requests |-> reqs, tokens |-> toks, ids |-> ids,
     result |-> result, mails |-> mails]

RequestFails(err, reqs, toks, ids) ==
    RequestOutcome(err, reqs, toks, ids, None, <<>>)

\* mutant: the request is submitted whatever the creation reported
create_and_submit_always(reqs, toks, type_id, created_by, topic, token, errors) ==
    LET created == service_create(reqs, type_id, created_by, topic, token)
        id == Len(created)
    IN  RequestOutcome(OK, execute_submit(created, id), toks, <<>>,
                       Some(id), <<>>)

\* lines 572-608 and 713-751: create the request, submit it unless the
\* creation reported errors
create_and_submit(reqs, toks, type_id, created_by, topic, token, errors) ==
    LET created == service_create(reqs, type_id, created_by, topic, token)
        id == Len(created)
    IN  IF errors
        THEN RequestOutcome(OK, created, toks, <<>>, Some(id), <<>>)
        ELSE RequestOutcome(OK, execute_submit(created, id), toks, <<>>,
                            Some(id), <<>>)

\* what the first part of a request handler leaves to its second part: the
\* error kind (OK when the checks passed), the colliding ids, and the request
\* to create with the token to delete (None in the user flow)
Checked(err, ids, type_id, created_by, topic, token) ==
    [err |-> err, ids |-> ids, type |-> type_id, created_by |-> created_by,
     topic |-> topic, token |-> token]

CheckFails(err, ids) == Checked(err, ids, "", <<>>, "", None)

\* mutant: the duplicate query does not filter on the topic
user_request_check_any_record(reqs, user, id_, can_read, can_read_files) ==
    IF id_ \notin Records THEN CheckFails(NotFound, <<>>)
    ELSE IF ~can_read THEN CheckFails(PermissionDenied, <<>>)
    ELSE IF can_read_files THEN CheckFails(PermissionDenied, <<>>)
    ELSE LET dups == SelectSeq(reqs, LAMBDA r :
                         /\ r.created_by = <<"user", user>>
                         /\ r.type = UserAccessRequestType
                         /\ is_open(r))
         IN  IF dups # <<>>
             THEN CheckFails(Duplicate, ids_of(dups))
             ELSE Checked(OK, <<>>, UserAccessRequestType, <<"user", user>>,
                          id_, None)

\* mutant: duplicates are detected before the permissions are checked
user_request_check_duplicates_first(reqs, user, id_, can_read, can_read_files) ==
    IF id_ \notin Records THEN CheckFails(NotFound, <<>>)
    ELSE LET dups == open_requests(reqs, <<"user", user>>, id_,
                                   UserAccessRequestType)
         IN  IF dups # <<>>
             THEN CheckFails(Duplicate, ids_of(dups))
             ELSE IF ~can_read THEN CheckFails(PermissionDenied, <<>>)
             ELSE IF can_read_files THEN CheckFails(PermissionDenied, <<>>)
             ELSE Checked(OK, <<>>, UserAccessRequestType, <<"user", user>>,
                          id_, None)

\* create_user_access_request up to the duplicate detection (lines 532-562)
user_request_check(reqs, user, id_, can_read, can_read_files) ==
    IF id_ \notin Records THEN CheckFails(NotFound, <<>>)
    ELSE IF ~can_read THEN CheckFails(PermissionDenied, <<>>)
    ELSE IF can_read_files THEN CheckFails(PermissionDenied, <<>>)
    ELSE LET dups == open_requests(reqs, <<"user", user>>, id_,
                                   UserAccessRequestType)
         IN  IF dups # <<>>
             THEN CheckFails(Duplicate, ids_of(dups))
             ELSE Checked(OK, <<>>, UserAccessRequestType, <<"user", user>>,
                          id_, None)

\* mutant: the guest flow's duplicate query filters on the user request type
guest_request_check_wrong_type(reqs, toks, authenticated, token) ==
    IF authenticated THEN CheckFails(PermissionDenied, <<>>)
    ELSE LET access_token == get_by_token(toks, token)
         IN  IF access_token = None
             THEN CheckFails("none", <<>>)
             ELSE LET tok == access_token[1]
                      dups == open_requests(reqs, <<"email", tok.email>>,
                                            tok.record_pid,
                                            UserAccessRequestType)
                  IN  IF dups # <<>>
                      THEN CheckFails(Duplicate, ids_of(dups))
                      ELSE Checked(OK, <<>>, GuestAccessRequestType,
                                   <<"email", tok.email>>, tok.record_pid,
                                   access_token)

\* create_guest_access_request up to the duplicate detection (lines
\* 673-701); "none" is the outcome of a token that is not found
guest_request_check(reqs, toks, authenticated, token) ==
    IF authenticated THEN CheckFails(PermissionDenied, <<>>)
    ELSE LET access_token == get_by_token(toks, token)
         IN  IF access_token = None
             THEN CheckFails("none", <<>>)
             ELSE LET tok == access_token[1]
                      dups == open_requests(reqs, <<"email", tok.email>>,
                                            tok.record_pid,
                                            GuestAccessRequestType)
                  IN  IF dups # <<>>
                      THEN CheckFails(Duplicate, ids_of(dups))
                      ELSE Checked(OK, <<>>, GuestAccessRequestType,
                                   <<"email", tok.email>>, tok.record_pid,
                                   access_token)

\* mutant: the second part detects duplicates again, under a lock, and
\* creates nothing when there is one
finish_request_rechecking(reqs, toks, c, errors) ==
    LET dups == open_requests(reqs, c.created_by, c.topic, c.type)
    IN  IF dups # <<>>
        THEN RequestFails(Duplicate, reqs, toks, ids_of(dups))
        ELSE create_and_submit(
                 reqs,
                 IF c.token = None THEN toks ELSE toks \ {c.token[1]},
                 c.type, c.created_by, c.topic,
                 IF c.token = None THEN None ELSE Some(c.token[1].token),
                 errors)

\* the second part of both handlers (lines 564-608 and 703-751): delete the
\* token if there is one, create the request and submit it
finish_request(reqs, toks, c, errors) ==
    create_and_submit(
        reqs,
        IF c.token = None THEN toks ELSE toks \ {c.token[1]},
        c.type, c.created_by, c.topic,
        IF c.token = None THEN None ELSE Some(c.token[1].token),
        errors)

\* create_user_access_request
create_user_access_request(reqs, toks, user, id_, can_read, can_read_files, errors) ==
    LET c == user_request_check(reqs, user, id_, can_read, can_read_files)
    IN  IF c.err # OK THEN RequestFails(c.err, reqs, toks, c.ids)
        ELSE finish_request(reqs, toks, c, errors)

\* mutant: the e-mail is sent at once, before the record is resolved
create_guest_access_request_token_mailing_first(reqs, toks, token, authenticated, id_, email) ==
    IF authenticated THEN RequestFails(PermissionDenied, reqs, toks, <<>>)
    ELSE IF id_ \notin Records
    THEN RequestOutcome(NotFound, reqs, toks, <<>>, None,
                        <<[receiver |-> email, token |-> token]>>)
    ELSE RequestOutcome(OK, reqs, token_create(toks, token, email, id_),
                        <<>>, None, <<[receiver |-> email, token |-> token]>>)

\* mutant: the record is resolved before the identity is looked at
create_guest_access_request_token_resolving_first(reqs, toks, token, authenticated, id_, email) ==
    IF id_ \notin Records THEN RequestFails(NotFound, reqs, toks, <<>>)
    ELSE IF authenticated THEN RequestFails(PermissionDenied, reqs, toks, <<>>)
    ELSE RequestOutcome(OK, reqs, token_create(toks, token, email, id_),
                        <<>>, None, <<[receiver |-> email, token |-> token]>>)

\* create_guest_access_request_token
create_guest_access_request_token(reqs, toks, token, authenticated, id_, email) ==
    IF authenticated THEN RequestFails(PermissionDenied, reqs, toks, <<>>)
    ELSE IF id_ \notin Records THEN RequestFails(NotFound, reqs, toks, <<>>)
    ELSE RequestOutcome(OK, reqs, token_create(toks, token, email, id_),
                        <<>>, None, <<[receiver |-> email, token |-> token]>>)

\* mutant: access_token.delete() is forgotten
create_guest_access_request_keeping_token(reqs, toks, authenticated, token, errors) ==
    LET c == guest_request_check(reqs, toks, authenticated, token)
    IN  IF c.err = "none" THEN RequestOutcome(OK, reqs, toks, <<>>, None, <<>>)
        ELSE IF c.err # OK THEN RequestFails(c.err, reqs, toks, c.ids)
        ELSE create_and_submit(reqs, toks, c.type, c.created_by, c.topic,
                               Some(c.token[1].token), errors)

\* create_guest_access_request
create_guest_access_request(reqs, toks, authenticated, token, errors) ==
    LET c == guest_request_check(reqs, toks, authenticated, token)
    IN  IF c.err = "none" THEN RequestOutcome(OK, reqs, toks, <<>>, None, <<>>)
        ELSE IF c.err # OK THEN RequestFails(c.err, reqs, toks, c.ids)
        ELSE finish_request(reqs, toks, c, errors)

\* a failure of the request service: current_requests_service.create or
\* execute_action raises
RequestServiceError == "request service error"

\* mutant: the token is deleted after the request is created
create_guest_access_request_raising_before_delete(reqs, toks, authenticated, token) ==
    LET c == guest_request_check(reqs, toks, authenticated, token)
    IN  IF c.err = "none" THEN RequestOutcome(OK, reqs, toks, <<>>, None, <<>>)
        ELSE IF c.err # OK THEN RequestFails(c.err, reqs, toks, c.ids)
        ELSE RequestFails(RequestServiceError, reqs, toks, <<>>)

\* create_guest_access_request when the request service raises in create
\* or in the submit (lines 722-751): the unit of work is aborted and no
\* request is kept; the token store has deleted the token at line 721
create_guest_access_request_raising(reqs, toks, authenticated, token) ==
    LET c == guest_request_check(reqs, toks, authenticated, token)
    IN  IF c.err = "none" THEN RequestOutcome(OK, reqs, toks, <<>>, None, <<>>)
        ELSE IF c.err # OK THEN RequestFails(c.err, reqs, toks, c.ids)
        ELSE RequestFails(RequestServiceError, reqs, toks \ {c.token[1]}, <<>>)

\* ------------------------------------- request actions, one at a time
\* what ret keeps of an invocation: the operation, the caller's arguments
\* (user and record id, or token), the error kind, the colliding ids and the
\* id of the returned request
RequestRet(op, args, r) ==
    [op |-> op, args |-> args, err |-> r.err, ids |-> r.ids, result |-> r.result]

\* <<can_read, can_read_files>>: what require_permission says for "read" and
\* for "read_files"
ReadPermissions == BOOLEAN \X BOOLEAN

CreateUserAccessRequestBy(users, ids) ==
    \E user \in users, id_ \in ids, perm \in ReadPermissions,
       errors \in BOOLEAN :
        LET r == create_user_access_request(requests, tokens, user, id_,
                                            perm[1], perm[2], errors)
        IN  /\ Len(r.requests) <= MaxRequests
            /\ requests' = r.requests
            /\ ret' = RequestRet("create_user_access_request",
                                 <<user, id_>>, r)
            /\ UNCHANGED <<now, linkVars, grantVars, tokens, nextToken, calls>>

CreateUserAccessRequest == CreateUserAccessRequestBy(Users, RecordIdArgs)

CreateGuestAccessRequestTokenBy(emails, ids) ==
    \E authenticated \in BOOLEAN, id_ \in ids, email \in emails :
        LET r == create_guest_access_request_token(requests, tokens, nextToken,
                                                   authenticated, id_, email)
        IN  /\ r.err = OK => nextToken <= MaxTokens
            /\ tokens' = r.tokens
            /\ nextToken' = IF r.err = OK THEN nextToken + 1 ELSE nextToken
            /\ ret' = RequestRet("create_guest_access_request_token",
                                 <<email, id_>>, r)
            /\ UNCHANGED <<now, linkVars, grantVars, requests, calls>>

CreateGuestAccessRequestToken ==
    CreateGuestAccessRequestTokenBy(Emails, RecordIdArgs)

CreateGuestAccessRequest ==
    \E authenticated \in BOOLEAN, token \in TokenArgs, errors \in BOOLEAN :
        LET r == create_guest_access_request(requests, tokens, authenticated,
                                             token, errors)
        IN  /\ Len(r.requests) <= MaxRequests
            /\ requests' = r.requests
            /\ tokens' = r.tokens
            /\ ret' = RequestRet("create_guest_access_request",
                                 <<token>>, r)
            /\ UNCHANGED <<now, linkVars, grantVars, nextToken, calls>>

\* a redemption during which the request service fails
CreateGuestAccessRequestRaising ==
    \E token \in TokenArgs :
        LET r == create_guest_access_request_raising(requests, tokens, FALSE,
                                                     token)
        IN  /\ r.err = RequestServiceError
            /\ tokens' = r.tokens
            /\ ret' = RequestRet("create_guest_access_request", <<token>>, r)
            /\ UNCHANGED <<now, linkVars, grantVars, requests, nextToken, calls>>

\* the request workflow closes an open request (accept, decline, cancel,
\* expire): outside this service
CloseRequest ==
    \E i \in 1..Len(requests) :
        /\ is_open(requests[i])
        /\ requests' = [requests EXCEPT ![i].status = "closed"]
        /\ ret' = [op |-> "close", args |-> <<i>>, err |-> OK, ids |-> <<>>,
                   result |-> None]
        /\ UNCHANGED <<now, linkVars, grantVars, tokens, nextToken, calls>>

\* the shelf life of a token runs out
ExpireToken ==
    \E t \in tokens :
        /\ ~t.expired
        /\ tokens' = (tokens \ {t}) \cup {[t EXCEPT !.expired = TRUE]}
        /\ ret' = [op |-> "expire", args |-> <<t.token>>, err |-> OK,
                   ids |-> <<>>, result |-> None]
        /\ UNCHANGED <<now, linkVars, grantVars, requests, nextToken, calls>>

\* the user flow alone
NextUser ==
    \/ CreateUserAccessRequest
    \/ CloseRequest

SpecUser == Init /\ [][NextUser]_vars

\* the guest flow alone
NextGuest ==
    \/ CreateGuestAccessRequestToken
    \/ CreateGuestAccessRequest
    \/ CreateGuestAccessRequestRaising
    \/ CloseRequest
    \/ ExpireToken

SpecGuest == Init /\ [][NextGuest]_vars

\* both flows, every token redeemed within its shelf life
NextRequests ==
    \/ CreateUserAccessRequest
    \/ CreateGuestAccessRequestToken
    \/ CreateGuestAccessRequest
    \/ CloseRequest

SpecRequests == Init /\ [][NextRequests]_vars

\* ------------------------------------------- every operation of the service
\* the payloads of the link handlers next to the other handlers
FewLinkPayloads ==
    {<<>>, [permission |-> "view", expires_at |-> <<MaxNow, 0>>]}

\* the payloads of the grant handlers next to the other handlers
FewGrantPayloads ==
    {[subject |-> [type |-> "user", id |-> "s1"], permission |-> "view",
      origin |-> None]}

\* the first index, and one on either side of the range
FewGrantIds == {0 - 1, 0, MaxGrants}

FewLookups ==
    {[read |-> "found", exists |-> TRUE],
     [read |-> PermissionDenied, exists |-> TRUE]}

\* what is stored stays within the bound
WithinStore ==
    Len(links) + Len(grants) + Len(requests) + Cardinality(tokens) <= MaxStored

\* one user and one guest asking for one record, or for an unknown one
NextService ==
    /\ \/ CreateSecretLink(FewLinkPayloads)
       \/ UpdateSecretLink(FewLinkPayloads)
       \/ DeleteSecretLink
       \/ CreateGrant(FewGrantPayloads, FewLookups)
       \/ UpdateGrant(FewGrantIds, FewGrantPayloads,
                      {[permission |-> "manage"]}, FewLookups)
       \/ DeleteGrant(FewGrantIds)
       \/ CreateUserAccessRequestBy({"u1"}, {"r1", "r0"})
       \/ CreateGuestAccessRequestTokenBy({"e1"}, {"r1", "r0"})
       \/ CreateGuestAccessRequest
       \/ CloseRequest
    /\ WithinStore'

SpecService == Init /\ [][NextService]_vars

\* ------------------------------------- the parent's links and grants alone
\* two grant payloads that differ in their subject
TwoGrantPayloads ==
    {[subject |-> [type |-> t, id |-> "s1"], permission |-> "view",
      origin |-> None] : t \in {"user", "system_role"}}

\* the link and grant operations on one parent, without its requests, at one
\* instant
NextParent ==
    /\ \/ CreateSecretLink({<<>>, [permission |-> "view"]})
       \/ UpdateSecretLink({[description |-> "e"]})
       \/ DeleteSecretLink
       \/ CreateGrant(TwoGrantPayloads, FewLookups)
       \/ UpdateGrant(FewGrantIds, TwoGrantPayloads, {<<>>}, FewLookups)
       \/ DeleteGrant(FewGrantIds)
    /\ now' = now

SpecParent == Init /\ [][NextParent]_vars

\* ------------------------------ request handlers running at the same time
\* Each invocation runs in its own database session: its duplicate query
\* sees the requests committed so far, and what it creates is committed,
\* and so seen by the others, when its unit of work ends.

\* the requests an invocation that has passed its checks is about to create
Pending == Cardinality({p \in Procs : calls[p].pc = "checked"})

RaceReturn(p, op, args, c) ==
    /\ calls' = [calls EXCEPT ![p] =
                    IF c.err = OK
                    THEN [pc |-> "checked", op |-> op, args |-> args, c |-> c]
                    ELSE Idle]
    /\ ret' = [op |-> op, args |-> args, ids |-> c.ids, result |-> None,
               err |-> IF c.err = "none" THEN OK ELSE c.err]

\* create_user_access_request up to its duplicate detection
RaceCheckUser(p) ==
    \E user \in Users, id_ \in RecordIdArgs, perm \in ReadPermissions :
        LET c == user_request_check(requests, user, id_, perm[1], perm[2])
        IN  /\ calls[p].pc = "idle"
            /\ c.err = OK => Len(requests) + Pending < MaxRequests
            /\ RaceReturn(p, "create_user_access_request", <<user, id_>>, c)
            /\ UNCHANGED <<now, linkVars, grantVars, requests, tokens, nextToken>>

\* create_guest_access_request up to its duplicate detection
RaceCheckGuest(p) ==
    \E authenticated \in BOOLEAN, token \in TokenArgs :
        LET c == guest_request_check(requests, tokens, authenticated, token)
        IN  /\ calls[p].pc = "idle"
            /\ c.err = OK => Len(requests) + Pending < MaxRequests
            /\ RaceReturn(p, "create_guest_access_request", <<token>>, c)
            /\ UNCHANGED <<now, linkVars, grantVars, requests, tokens, nextToken>>

\* the rest of either handler, and the commit
RaceFinish(p) ==
    \E errors \in BOOLEAN :
        /\ calls[p].pc = "checked"
        /\ LET r == finish_request(requests, tokens, calls[p].c, errors)
           IN  /\ requests' = r.requests
               /\ tokens' = r.tokens
               /\ ret' = RequestRet(calls[p].op, calls[p].args, r)
        /\ calls' = [calls EXCEPT ![p] = Idle]
        /\ UNCHANGED <<now, linkVars, grantVars, nextToken>>

NextRace ==
    \/ CreateGuestAccessRequestToken
    \/ \E p \in Procs : RaceCheckUser(p)
    \/ \E p \in Procs : RaceCheckGuest(p)
    \/ \E p \in Procs : RaceFinish(p)

SpecRace == Init /\ [][NextRace]_vars

\* --------------------- link and grant handlers running at the same time
\* Each invocation loads the parent (get_parent_and_record_or_draft), changes
\* the links or grants of that object in memory, and registers
\* RecordCommitOp(parent); the commit is carried out when its unit of work
\* ends. The links and grants are part of the parent's one persisted document.

\* the parent as persisted
Parent == [links |-> links, grants |-> grants]

\* mutant: a commit of a parent loaded before another commit is dropped
commit_parent_unless_stale(persisted, loaded, parent) ==
    IF persisted = loaded THEN parent ELSE persisted

\* uow.register(RecordCommitOp(parent)): what is persisted is the parent
\* object of the invocation, whatever was persisted since it was loaded
commit_parent(persisted, loaded, parent) == parent

\* a handler up to the end of its body: it has loaded the parent and holds the
\* changed parent; an invocation that raises returns at once
ParentStage(p, op, o, parent) ==
    /\ calls[p].pc = "idle"
    /\ calls' = [calls EXCEPT ![p] =
                    IF o.err = OK
                    THEN [pc |-> "staged", op |-> op, loaded |-> Parent,
                          parent |-> parent]
                    ELSE Idle]
    /\ ret' = [op |-> op, err |-> o.err, committed |-> FALSE, lost |-> FALSE]

RaceCreateGrant(p) ==
    \E who \in Callers, data \in TwoGrantPayloads :
        LET o == create_grant(grants, who[1], who[2], data,
                              [read |-> "found", exists |-> TRUE])
        IN  /\ Len(o.grants) <= MaxGrants
            /\ ParentStage(p, "create_grant", o, [Parent EXCEPT !.grants = o.grants])
            /\ UNCHANGED <<now, linkVars, grantVars, requests, tokens, nextToken>>

RaceDeleteGrant(p) ==
    \E who \in Callers, grant_id \in {0, 1} :
        LET o == delete_grant(grants, who[1], who[2], grant_id)
        IN  /\ ParentStage(p, "delete_grant", o, [Parent EXCEPT !.grants = o.grants])
            /\ UNCHANGED <<now, linkVars, grantVars, requests, tokens, nextToken>>

RaceCreateSecretLink(p) ==
    \E who \in Callers :
        LET o == create_secret_link(links, nextLinkId, who[1], who[2],
                                    [permission |-> "view"], now)
        IN  /\ o.err = OK => nextLinkId <= MaxLinks
            /\ ParentStage(p, "create_secret_link", o,
                           [Parent EXCEPT !.links = o.links])
            /\ nextLinkId' = IF o.err = OK THEN nextLinkId + 1 ELSE nextLinkId
            /\ UNCHANGED <<now, links, scn, revoked, grantVars, requests, tokens,
                           nextToken>>

\* the unit of work of an invocation ends: its parent is committed
RaceCommit(p) ==
    /\ calls[p].pc = "staged"
    /\ LET committed == commit_parent(Parent, calls[p].loaded, calls[p].parent)
       IN  /\ links' = committed.links
           /\ grants' = committed.grants
    /\ ret' = [op |-> calls[p].op, err |-> OK, committed |-> TRUE,
               lost |-> \E i \in 1..Len(grants) :
                            \A j \in 1..Len(grants') : grants'[j] # grants[i]]
    /\ calls' = [calls EXCEPT ![p] = Idle]
    /\ UNCHANGED <<now, nextLinkId, scn, revoked, requests, tokens, nextToken>>

NextParentRace ==
    \/ \E p \in Procs : RaceCreateGrant(p)
    \/ \E p \in Procs : RaceDeleteGrant(p)
    \/ \E p \in Procs : RaceCreateSecretLink(p)
    \/ \E p \in Procs : RaceCommit(p)

SpecParentRace == Init /\ [][NextParentRace]_vars

\* ------------------------------------------- properties of the link handlers
\* the second reading of the clock an update can make
SecondReadings == {now, now + 1}

\* the payload sets expires_at to null or to an instant later than old
Loosens(data, old) ==
    /\ "expires_at" \in DOMAIN data
    /\ \/ data.expires_at = None
       \/ ToUTC(data.expires_at) > old[1]

\* over one update of an existing link that has an expiration: P(data, old,
\* outcome, index of the link, first clock reading)
ForUpdatesOfExpiringLinks(P(_, _, _, _)) ==
    \A link_id \in LinkIdArgs, data \in ExpPayloads, now2 \in SecondReadings :
        LET idx == link_index(links, link_id)
            r == update_secret_link(links, TRUE, TRUE, link_id, data, now, now2)
        IN  (idx # 0 /\ links[idx].expires_at # None)
                => P(data, links[idx].expires_at, r, idx)

\* a successful update leaves expires_at set and no later than it was
KeepsOrReduces(old, r, idx) ==
    r.err = OK =>
        /\ r.links[idx].expires_at # None
        /\ r.links[idx].expires_at[1] <= old[1]

\* C1 as stated: an update that sets expires_at of an expiring link to null or
\* to a later instant fails with "Cannot postpone expiration" and leaves the
\* links unchanged, and a successful update keeps expires_at set and no later.
C1_AlwaysPostponeError ==
    ForUpdatesOfExpiringLinks(LAMBDA data, old, r, idx :
        /\ Loosens(data, old) => (r.err = ErrPostpone /\ r.links = links)
        /\ KeepsOrReduces(old, r, idx))

\* the contract of one update of an expiring link, as the code has it
C1_UpdateContract ==
    ForUpdatesOfExpiringLinks(LAMBDA data, old, r, idx :
        /\ Loosens(data, old) =>
              /\ r.links = links
              /\ r.err = IF data.expires_at # None /\ ToUTC(data.expires_at) < now
                         THEN ErrFuture ELSE ErrPostpone
        /\ KeepsOrReduces(old, r, idx))

\* whatever the step, a link that has an expiration keeps one, no later
C1_Monotonic ==
    \A i \in 1..Len(links) : \A j \in 1..Len(links') :
        (links[i].expires_at # None /\ links'[j].link_id = links[i].link_id)
            => /\ links'[j].expires_at # None
               /\ links'[j].expires_at[1] <= links[i].expires_at[1]

\* C1 (amended): an update that sets expires_at of an expiring link to null or
\* to a later instant fails with a validation error and leaves the links
\* unchanged; the error is "Cannot postpone expiration", except that it is
\* "Expiration date must be set to the future" when the supplied instant is
\* earlier than now. A successful update keeps expires_at set and no later,
\* so over any sequence of steps a set expires_at stays set and never grows.
C1_NeverLoosened == []C1_UpdateContract /\ [][C1_Monotonic]_vars

\* an update was refused as postponing the expiration of a link that has one
C1_Witness ==
    /\ ret.op = "update_secret_link"
    /\ ret.err = ErrPostpone
    /\ ret.old_expires_at # None
    /\ expires_at_of(links, ret.link_id) = ret.old_expires_at

\* over one update of an existing link without expiration: P(data, outcome,
\* index of the link, second clock reading)
ForUpdatesOfUnlimitedLinks(P(_, _, _, _)) ==
    \A link_id \in LinkIdArgs, data \in ExpPayloads, now2 \in SecondReadings :
        LET idx == link_index(links, link_id)
            r == update_secret_link(links, TRUE, TRUE, link_id, data, now, now2)
        IN  (idx # 0 /\ links[idx].expires_at = None) => P(data, r, idx, now2)

\* C2 as stated: an update of a link whose expires_at is null leaves it null.
C2_NeverIntroduced ==
    ForUpdatesOfUnlimitedLinks(LAMBDA data, r, idx, now2 :
        r.links[idx].expires_at = None)

\* C2 (amended): an update of a link whose expires_at is null leaves it null
\* when the payload omits expires_at or sets it to null; when the payload
\* supplies an instant, the update succeeds and sets expires_at to that
\* instant (in UTC) if the instant is not earlier than now, and otherwise
\* fails with "must be set to the future" and leaves the links unchanged.
C2_IntroducedOnlyByPayload ==
    ForUpdatesOfUnlimitedLinks(LAMBDA data, r, idx, now2 :
        IF "expires_at" \in DOMAIN data /\ data.expires_at # None
        THEN IF ToUTC(data.expires_at) >= now2
             THEN /\ r.err = OK
                  /\ r.links[idx].expires_at = Some(ToUTC(data.expires_at))
             ELSE r.err = ErrFuture /\ r.links = links
        ELSE r.err = OK /\ r.links[idx].expires_at = None)

\* an update gave an expiration to a link that had none
C2_Witness ==
    /\ ret.op = "update_secret_link"
    /\ ret.err = OK
    /\ ret.old_expires_at = None
    /\ expires_at_of(links, ret.link_id) # None

\* C4: an expires_at accepted by create_secret_link or update_secret_link is
\* strictly later than the clock at validation (a supplied instant earlier
\* than or equal to now is never accepted): when a creation has just stored
\* an expires_at, or an update has just changed it, it is later than now.
C4_AcceptedIsStrictlyFuture ==
    /\ (ret.op = "create_secret_link" /\ ret.err = OK
            /\ expires_at_of(links, ret.link_id) # None)
          => expires_at_of(links, ret.link_id)[1] > now
    /\ (ret.op = "update_secret_link" /\ ret.err = OK
            /\ expires_at_of(links, ret.link_id) # None
            /\ expires_at_of(links, ret.link_id) # ret.old_expires_at)
          => expires_at_of(links, ret.link_id)[1] > now

\* C3: in the five-step scenario (1) the creation succeeds and the link has
\* no expires_at, (2) the update to a future T1 succeeds and expires_at is
\* T1, (3) the update to null fails with "Cannot postpone expiration", (4)
\* the update to T2 > T1 fails, (5) the update to T0, now <= T0 < T1,
\* succeeds and expires_at is T0; the failed steps leave expires_at at T1.
C3_Scenario ==
    /\ scn.step >= 1 =>
          /\ Len(links) = 1
          /\ links[1].link_id = 1
          /\ links[1].permission_level = "view"
    /\ scn.step = 1 => (scn.err = OK /\ links[1].expires_at = None)
    /\ scn.step = 2 => (scn.err = OK /\ links[1].expires_at = scn.t1)
    /\ scn.step = 3 => (scn.err = ErrPostpone /\ links[1].expires_at = scn.t1)
    /\ scn.step = 4 => (scn.err \in {ErrPostpone, ErrFuture}
                          /\ links[1].expires_at = scn.t1)
    /\ scn.step = 5 => (scn.err = OK /\ links[1].expires_at = scn.t
                          /\ scn.t[1] < scn.t1[1])
    /\ scn.step >= 2 => scn.t1 # None

\* the scenario has run to its end
C3_Witness ==
    /\ scn.step = 5
    /\ scn.err = OK
    /\ links[1].expires_at = scn.t

\* C16: a successful delete_secret_link removes exactly the link with the given
\* id and revokes its capability; read, update and delete with that id then
\* fail with not-found, and the other links keep content and order. With an
\* unknown id it fails with not-found and removes and revokes nothing. A
\* link's capability is revoked only if the link was removed.
C16_DeleteRemovesAndRevokes ==
    /\ \A l \in revoked : \A i \in 1..Len(links) : links[i].link_id # l
    /\ \A link_id \in LinkIdArgs :
          LET r == delete_secret_link(links, TRUE, TRUE, link_id)
          IN  IF \E i \in 1..Len(links) : links[i].link_id = link_id
              THEN /\ r.err = OK
                   /\ r.links = SelectSeq(links, LAMBDA l : l.link_id # link_id)
                   /\ Len(r.links) = Len(links) - 1
                   /\ r.revoked = {link_id}
                   /\ read_secret_link(r.links, TRUE, TRUE, link_id).err
                         = NotFound
                   /\ delete_secret_link(r.links, TRUE, TRUE, link_id).err
                         = NotFound
                   /\ \A data \in ExpPayloads, now2 \in SecondReadings :
                         update_secret_link(r.links, TRUE, TRUE, link_id, data,
                                            now, now2).err = NotFound
              ELSE /\ r.err = NotFound
                   /\ r.links = links
                   /\ r.revoked = {}

\* a link was deleted and revoked while another link stayed
C16_Witness ==
    /\ ret.op = "delete_secret_link"
    /\ ret.err = OK
    /\ ret.link_id \in revoked
    /\ Len(links) = 1
    /\ links[1].link_id # ret.link_id

\* ----------------------------------------- properties of the grant handlers
\* C12: for a parent with n grants and 0 <= i < n, a delete_grant(i) succeeds
\* and leaves n-1 grants, those below i unchanged and those above i moved
\* down by one; read_grant(i) then returns the grant that was at i+1, or
\* fails with not-found when i was the last index.
C12_DeleteShiftsDown ==
    \A i \in 0..(Len(grants) - 1) :
        LET n == Len(grants)
            d == delete_grant(grants, TRUE, TRUE, i)
            r == read_grant(d.grants, TRUE, TRUE, i)
        IN  /\ d.err = OK
            /\ Len(d.grants) = n - 1
            /\ \A j \in 0..(n - 2) :
                  d.grants[j + 1] = IF j < i THEN grants[j + 1] ELSE grants[j + 2]
            /\ IF i < n - 1
               THEN r.err = OK /\ r.result = Some(grants[i + 2])
               ELSE r.err = NotFound /\ r.result = None

\* the first of two grants was deleted and the second is now at index 0
C12_Witness ==
    /\ ret.op = "delete_grant"
    /\ ret.err = OK
    /\ ret.grant_id = 0
    /\ Len(grants) = 1
    /\ read_grant(grants, TRUE, TRUE, 0).err = OK

\* C13: read_grant, update_grant and delete_grant fail with not-found and
\* change no grant when the index is outside [0, len(grants)), negative
\* indices included; update_grant with a negative index replaces no grant.
C13_OutOfRangeIsNotFound ==
    /\ \A grant_id \in GrantIdArgs :
          ~InRange(grants, grant_id) =>
              /\ read_grant(grants, TRUE, TRUE, grant_id).err = NotFound
              /\ delete_grant(grants, TRUE, TRUE, grant_id).err = NotFound
              /\ delete_grant(grants, TRUE, TRUE, grant_id).grants = grants
    /\ (ret.op = "update_grant" /\ ~InRange(grants, ret.grant_id)) =>
          ret.err \in {NotFound, PermissionDenied}

\* the grant the last create_grant or update_grant wrote
Written ==
    IF ret.op = "create_grant" THEN grants[Len(grants)]
    ELSE grants[Subscript(Len(grants), ret.grant_id)]

\* C14: every grant a create_grant or update_grant persists names a subject
\* that existed and was visible to the calling identity when it was written.
C14_WrittenSubjectWasVisible ==
    (/\ ret.op \in {"create_grant", "update_grant"}
     /\ ret.err = OK
     /\ Written.subject_type \in {"user", "role"}) => ret.read = "found"

\* the subject of the payload is not there for the caller: a user or role
\* whose read does not answer, a system role that does not exist, or a
\* subject of an unknown type
SubjectMissing(data, lookup) ==
    \/ data.subject.type \in {"user", "role"} /\ lookup.read # "found"
    \/ data.subject.type = "system_role" /\ ~lookup.exists
    \/ data.subject.type \notin {"user", "role", "system_role"}

\* C15: create_grant answers a subject lookup that ends in not-found or in
\* permission-denied, and a subject of an unknown type, with the same
\* "Could not find the specified subject" error; the grant it had appended
\* to the parent's grants is not retained: the persisted grants are those
\* from before the call, and nothing is committed or reindexed.
C15_SubjectNotFoundFolded ==
    \A data \in GrantPayloads, lookup \in SubjectLookups :
        LET r == create_grant(grants, TRUE, TRUE, data, lookup)
        IN  IF SubjectMissing(data, lookup)
            THEN /\ r.err = ErrSubject
                 /\ Len(r.staged) = Len(grants) + 1
                 /\ r.grants = grants
                 /\ r.done = <<>>
                 /\ r.result = None
            ELSE /\ r.err = OK
                 /\ r.grants = r.staged

\* a create_grant whose subject lookup was denied failed as not found, on a
\* parent that has a grant
C15_Witness ==
    /\ ret.op = "create_grant"
    /\ ret.err = ErrSubject
    /\ ret.read = PermissionDenied
    /\ Len(grants) >= 1

\* ---------------------------------------- properties of the request handlers
\* the ids of the open requests of a type by a requester on a record
OpenIds(reqs, type_id, created_by, topic) ==
    {reqs[i].id : i \in {j \in 1..Len(reqs) :
        /\ reqs[j].type = type_id
        /\ reqs[j].created_by = created_by
        /\ reqs[j].topic = topic
        /\ reqs[j].status = "submitted"}}

Range(seq) == {seq[i] : i \in 1..Len(seq)}

\* the outcome created one request, of that type, requester and record
CreatedOne(r, reqs, type_id, created_by, topic) ==
    /\ r.err = OK
    /\ Len(r.requests) = Len(reqs) + 1
    /\ SubSeq(r.requests, 1, Len(reqs)) = reqs
    /\ r.result = Some(r.requests[Len(r.requests)].id)
    /\ r.requests[Len(r.requests)].type = type_id
    /\ r.requests[Len(r.requests)].created_by = created_by
    /\ r.requests[Len(r.requests)].topic = topic

\* C5: for a user U with "read" and without "read_files" on a record R,
\* create_user_access_request fails with DuplicateAccessRequestError carrying
\* exactly the id of U's open user access request on R, and creates nothing,
\* whenever U has such a request; in every other state (the request closed,
\* or only requests of other users, on other records or of the guest type)
\* it succeeds and creates one request.
C5_DuplicateWhileOpen ==
    \A user \in Users, id_ \in Records, errors \in BOOLEAN :
        LET mine == OpenIds(requests, UserAccessRequestType, <<"user", user>>, id_)
            r == create_user_access_request(requests, tokens, user, id_,
                                            TRUE, FALSE, errors)
        IN  IF mine # {}
            THEN /\ r.err = Duplicate
                 /\ Range(r.ids) = mine
                 /\ Len(r.ids) = 1
                 /\ r.requests = requests
            ELSE CreatedOne(r, requests, UserAccessRequestType,
                            <<"user", user>>, id_)

\* a user was refused a second request while the first is open, in the
\* presence of an open guest request on the same record
C5_Witness ==
    /\ ret.op = "create_user_access_request"
    /\ ret.err = Duplicate
    /\ Len(ret.ids) = 1
    /\ \E i, j \in 1..Len(requests) :
          /\ requests[i].id = ret.ids[1]
          /\ requests[i].created_by = <<"user", ret.args[1]>>
          /\ requests[i].topic = ret.args[2]
          /\ is_open(requests[i])
          /\ requests[j].type = GuestAccessRequestType
          /\ requests[j].topic = ret.args[2]
          /\ is_open(requests[j])

\* C6: when the handlers run one at a time, there is at most one open
\* request per requester (user id or e-mail), record and request type.
C6_OneOpenPerRequester ==
    \A i, j \in 1..Len(requests) :
        (/\ requests[i].status = "submitted"
         /\ requests[j].status = "submitted"
         /\ requests[i].type = requests[j].type
         /\ requests[i].created_by = requests[j].created_by
         /\ requests[i].topic = requests[j].topic) => i = j

\* a guest was refused a second request on a record while the first is open
C6_Witness ==
    /\ ret.op = "create_guest_access_request"
    /\ ret.err = Duplicate
    /\ \E i \in 1..Len(requests) :
          /\ requests[i].id \in Range(ret.ids)
          /\ requests[i].type = GuestAccessRequestType
          /\ is_open(requests[i])

\* C7: an invocation that has passed its duplicate detection goes on to
\* create its request whatever has been committed since: its second part
\* never fails and always adds one request, also when an open request of the
\* same type, requester and record exists by then.
C7_FinishCreates ==
    \A p \in Procs :
        (calls[p].pc = "checked" /\ calls'[p].pc = "idle") =>
            /\ ret'.err = OK
            /\ Len(requests') = Len(requests) + 1
            /\ requests'[Len(requests')].type = calls[p].c.type
            /\ requests'[Len(requests')].created_by = calls[p].c.created_by
            /\ requests'[Len(requests')].topic = calls[p].c.topic

C7_CheckThenCreateNotAtomic == [][C7_FinishCreates]_vars

\* two open guest requests of one e-mail on one record, from two tokens
C7_Witness ==
    \E i, j \in 1..Len(requests) :
        /\ i # j
        /\ requests[i].type = GuestAccessRequestType
        /\ requests[j].type = GuestAccessRequestType
        /\ requests[i].created_by = requests[j].created_by
        /\ requests[i].topic = requests[j].topic
        /\ requests[i].token # requests[j].token
        /\ is_open(requests[i])
        /\ is_open(requests[j])

\* the stored token a token string stands for is there and not expired
Redeemable(toks, token) == \E t \in toks : t.token = token /\ ~t.expired

\* the outcome is the null no-op
NullNoOp(r, reqs, toks) ==
    /\ r.err = OK
    /\ r.result = None
    /\ r.requests = reqs
    /\ r.tokens = toks
    /\ r.mails = <<>>

\* C8: a redemption that succeeds creates one guest request and deletes the
\* token, and a second redemption of the same token then returns null,
\* raises nothing, creates no request and changes nothing; so does the
\* redemption of any token that is unknown or expired.
C8_SecondRedemptionIsNull ==
    \A token \in TokenArgs, errors \in BOOLEAN :
        LET first == create_guest_access_request(requests, tokens, FALSE,
                                                 token, errors)
        IN  /\ ~Redeemable(tokens, token) => NullNoOp(first, requests, tokens)
            /\ (first.err = OK /\ first.result # None) =>
                  /\ Len(first.requests) = Len(requests) + 1
                  /\ first.requests[Len(first.requests)].type
                        = GuestAccessRequestType
                  /\ first.tokens = {t \in tokens : t.token # token}
                  /\ \A again \in BOOLEAN :
                        NullNoOp(create_guest_access_request(
                                     first.requests, first.tokens, FALSE,
                                     token, again),
                                 first.requests, first.tokens)

\* the token of an open guest request was presented again and null returned
C8_Witness ==
    /\ ret.op = "create_guest_access_request"
    /\ ret.err = OK
    /\ ret.result = None
    /\ \E i \in 1..Len(requests) :
          /\ requests[i].token = Some(ret.args[1])
          /\ is_open(requests[i])

\* C9: for an authenticated identity both guest operations fail with
\* PermissionDeniedError whatever the arguments (also an unknown record or
\* token), and create, delete or send nothing.
C9_NoGuestPathForAuthenticated ==
    /\ \A id_ \in RecordIdArgs, email \in Emails :
          LET r == create_guest_access_request_token(
                       requests, tokens, nextToken, TRUE, id_, email)
          IN  /\ r.err = PermissionDenied
              /\ r.tokens = tokens
              /\ r.requests = requests
              /\ r.mails = <<>>
    /\ \A token \in TokenArgs, errors \in BOOLEAN :
          LET r == create_guest_access_request(requests, tokens, TRUE,
                                               token, errors)
          IN  /\ r.err = PermissionDenied
              /\ r.tokens = tokens
              /\ r.requests = requests
              /\ r.mails = <<>>

\* an authenticated identity was refused the redemption of a valid token
C9_Witness ==
    /\ ret.op = "create_guest_access_request"
    /\ ret.err = PermissionDenied
    /\ Redeemable(tokens, ret.args[1])

\* C10: on an existing record create_user_access_request creates a request
\* only for an identity with "read" and without "read_files"; every other
\* identity fails with PermissionDeniedError, never with
\* DuplicateAccessRequestError, and nothing is created.
C10_InvertedPermissionGate ==
    \A user \in Users, id_ \in Records, perm \in ReadPermissions,
       errors \in BOOLEAN :
        LET r == create_user_access_request(requests, tokens, user, id_,
                                            perm[1], perm[2], errors)
        IN  /\ r.requests # requests => (perm[1] /\ ~perm[2])
            /\ (~perm[1] \/ perm[2]) =>
                  /\ r.err = PermissionDenied
                  /\ r.requests = requests
                  /\ r.tokens = tokens

\* a user with an open request on the record was refused for permissions
C10_Witness ==
    /\ ret.op = "create_user_access_request"
    /\ ret.err = PermissionDenied
    /\ OpenIds(requests, UserAccessRequestType, <<"user", ret.args[1]>>,
               ret.args[2]) # {}

C19_TokenThenMail ==
    \A authenticated \in BOOLEAN, id_ \in RecordIdArgs, email \in Emails :
        LET r == create_guest_access_request_token(
                     requests, tokens, nextToken, authenticated, id_, email)
        IN  /\ \A i \in 1..Len(r.mails) :
                  \E t \in r.tokens : /\ t.token = r.mails[i].token
                                       /\ t.email = r.mails[i].receiver
            /\ IF r.err = OK
               THEN /\ Cardinality(r.tokens) = Cardinality(tokens) + 1
                    /\ tokens \subseteq r.tokens
                    /\ \A t \in r.tokens \ tokens :
                          /\ t.email = email
                          /\ t.record_pid = id_
                          /\ t.shelf_life = 6
                          /\ ~t.expired
                    /\ Len(r.mails) = 1
                    /\ r.mails[1].receiver = email
               ELSE /\ r.tokens = tokens
                    /\ r.mails = <<>>

\* a second token was issued, for the e-mail and record the caller named
C19_Witness ==
    /\ ret.op = "create_guest_access_request_token"
    /\ ret.err = OK
    /\ Cardinality(tokens) = 2
    /\ \E t \in tokens : /\ t.token = nextToken - 1
                          /\ t.email = ret.args[1]
                          /\ t.record_pid = ret.args[2]

\* the checks of a handler passed and it created this request
Created(r, reqs) == r.requests[Len(reqs) + 1]

\* the request is created with the owner of the record as receiver, none
\* when the owner does not resolve, and is submitted iff no errors were
\* reported
CreatedThenSubmitted(r, reqs, topic, errors) ==
    /\ r.err = OK
    /\ Len(r.requests) = Len(reqs) + 1
    /\ r.result = Some(Created(r, reqs).id)
    /\ Created(r, reqs).receiver
          = IF topic = "r1" THEN Some("owner") ELSE None
    /\ Created(r, reqs).status = IF errors THEN "created" ELSE "submitted"

\* C20: once create_user_access_request or create_guest_access_request has
\* passed its permission and duplicate checks, it creates the request with
\* the record's owner as receiver, or without receiver when the owner does
\* not resolve, and submits it in the same invocation iff the creation
\* reported no errors; with errors the request is returned unsubmitted.
C20_CreateThenSubmit ==
    /\ \A user \in Users, id_ \in Records, errors \in BOOLEAN :
          user_request_check(requests, user, id_, TRUE, FALSE).err = OK =>
              CreatedThenSubmitted(
                  create_user_access_request(requests, tokens, user, id_,
                                             TRUE, FALSE, errors),
                  requests, id_, errors)
    /\ \A token \in TokenArgs, errors \in BOOLEAN :
          LET c == guest_request_check(requests, tokens, FALSE, token)
          IN  c.err = OK =>
                  CreatedThenSubmitted(
                      create_guest_access_request(requests, tokens, FALSE,
                                                  token, errors),
                      requests, c.topic, errors)

\* a guest request on the record without owner was created and submitted
\* next to an unsubmitted one
C20_Witness ==
    /\ ret.op = "create_guest_access_request"
    /\ ret.err = OK
    /\ ret.result # None
    /\ \E i, j \in 1..Len(requests) :
          /\ requests[i].id = ret.result[1]
          /\ requests[i].receiver = None
          /\ requests[i].status = "submitted"
          /\ requests[j].status = "created"

\* ------------------------------------------ properties of the whole service
\* the payloads an update_grant is tried with: <<data, partial>>
GrantUpdates ==
    (GrantPayloads \X {FALSE}) \cup (PartialGrantPayloads \X {TRUE})

\* the outcome of a grant operation is an error that left nothing behind
GrantUntouched(r) ==
    r.err # OK => (r.grants = grants /\ r.done = <<>> /\ r.result = None)

\* the outcome of a request operation is an error that left nothing behind
RequestsUntouched(r) ==
    r.err # OK =>
        /\ r.requests = requests
        /\ r.tokens = tokens
        /\ r.mails = <<>>
        /\ r.result = None

\* C11: every operation that ends in an error (validation, permission
\* denied, not found, duplicate request) leaves the persisted links, grants,
\* requests and tokens as they were, revokes nothing, and has no reindex and
\* no e-mail carried out.
C11_ErrorsLeaveNothingBehind ==
    /\ \A who \in Callers, data \in ExpPayloads :
          LET r == create_secret_link(links, nextLinkId, who[1], who[2], data, now)
          IN  r.err # OK => r.links = links
    /\ \A who \in Callers, link_id \in LinkIdArgs, data \in ExpPayloads,
          now2 \in SecondReadings :
          LET r == update_secret_link(links, who[1], who[2], link_id, data,
                                      now, now2)
          IN  r.err # OK => r.links = links
    /\ \A who \in Callers, link_id \in LinkIdArgs :
          LET r == delete_secret_link(links, who[1], who[2], link_id)
          IN  r.err # OK => (r.links = links /\ r.revoked = {})
    /\ \A who \in Callers, lookup \in SubjectLookups :
          /\ \A data \in GrantPayloads :
                GrantUntouched(create_grant(grants, who[1], who[2], data, lookup))
          /\ \A grant_id \in GrantIdArgs, u \in GrantUpdates :
                GrantUntouched(update_grant(grants, who[1], who[2], grant_id,
                                            u[1], u[2], lookup))
    /\ \A who \in Callers, grant_id \in GrantIdArgs :
          GrantUntouched(delete_grant(grants, who[1], who[2], grant_id))
    /\ \A user \in Users, id_ \in RecordIdArgs, perm \in ReadPermissions,
          errors \in BOOLEAN :
          RequestsUntouched(create_user_access_request(
              requests, tokens, user, id_, perm[1], perm[2], errors))
    /\ \A authenticated \in BOOLEAN, id_ \in RecordIdArgs, email \in Emails :
          RequestsUntouched(create_guest_access_request_token(
              requests, tokens, nextToken, authenticated, id_, email))
    /\ \A authenticated \in BOOLEAN, token \in TokenArgs, errors \in BOOLEAN :
          RequestsUntouched(create_guest_access_request(
              requests, tokens, authenticated, token, errors))

\* a redemption failed as a duplicate and its token is still stored
C11_Witness ==
    /\ ret.op = "create_guest_access_request"
    /\ ret.err = Duplicate
    /\ \E t \in tokens : t.token = ret.args[1]

\* the outcome is a refusal that gave nothing away
Refused(r) == r.err = PermissionDenied /\ r.result = None

\* C17: for an identity without "manage" on the resolved record, every
\* secret-link operation and every grant operation fails with
\* PermissionDeniedError whatever the payload, returns no link or grant, and
\* changes nothing.
C17_ManageGatesLinksAndGrants ==
    /\ \A data \in ExpPayloads :
          LET r == create_secret_link(links, nextLinkId, TRUE, FALSE, data, now)
          IN  r.err = PermissionDenied /\ r.links = links
    /\ Refused(read_all_secret_links(links, TRUE, FALSE))
    /\ \A link_id \in LinkIdArgs :
          /\ Refused(read_secret_link(links, TRUE, FALSE, link_id))
          /\ LET r == delete_secret_link(links, TRUE, FALSE, link_id)
             IN  /\ r.err = PermissionDenied
                 /\ r.links = links
                 /\ r.revoked = {}
          /\ \A data \in ExpPayloads, now2 \in SecondReadings :
                LET r == update_secret_link(links, TRUE, FALSE, link_id, data,
                                            now, now2)
                IN  r.err = PermissionDenied /\ r.links = links
    /\ Refused(read_all_grants(grants, TRUE, FALSE))
    /\ \A data \in GrantPayloads, lookup \in SubjectLookups :
          LET r == create_grant(grants, TRUE, FALSE, data, lookup)
          IN  Refused(r) /\ r.grants = grants /\ r.done = <<>>
    /\ \A grant_id \in GrantIdArgs :
          /\ Refused(read_grant(grants, TRUE, FALSE, grant_id))
          /\ LET r == delete_grant(grants, TRUE, FALSE, grant_id)
             IN  Refused(r) /\ r.grants = grants /\ r.done = <<>>
          /\ \A u \in GrantUpdates, lookup \in SubjectLookups :
                LET r == update_grant(grants, TRUE, FALSE, grant_id, u[1], u[2],
                                      lookup)
                IN  Refused(r) /\ r.grants = grants /\ r.done = <<>>

\* an update of an existing grant was refused on a parent with a link
C17_Witness ==
    /\ ret.op = "update_grant"
    /\ ret.err = PermissionDenied
    /\ ret.grant_id = 0
    /\ Len(grants) = 1
    /\ Len(links) = 1

\* ------------------------------------------- properties of the link fields
\* the payloads create_secret_link and update_secret_link are examined with
LinkPayloads ==
    FieldPayloads \cup ExpPayloads
        \cup {FullLinkPayload @@ [permission |-> p] : p \in {"bogus", "edit"}}
        \cup {[origin |-> "api", extra_data |-> <<"y">>]}

\* the payload names no permission, or a level that is not allowed
LacksPermission(data) ==
    \/ "permission" \notin DOMAIN data
    \/ data.permission \notin AllowedLevels

\* the payload's expires_at is given and lies before `now`
ExpiresInPast(data) ==
    /\ Get(data, "expires_at", None) # None
    /\ ToUTC(data.expires_at) < now

\* the link a successful creation with that payload stores
RequestedLink(data, new_id) ==
    [link_id          |-> new_id,
     permission_level |-> data.permission,
     origin           |-> IF "origin" \in DOMAIN data
                          THEN Some(data.origin) ELSE None,
     description      |-> IF "description" \in DOMAIN data
                          THEN data.description ELSE "",
     expires_at       |-> IF Get(data, "expires_at", None) = None THEN None
                          ELSE Some(ToUTC(data.expires_at)),
     extra_data       |-> IF "extra_data" \in DOMAIN data
                          THEN data.extra_data ELSE <<>>]

\* C21 as stated: a payload without permission, or with a level that is not
\* allowed, makes create_secret_link fail with a ValidationError on the
\* 'permission' field and add no link.
C21_PermissionFieldAlways ==
    \A data \in LinkPayloads :
        LET o == create_secret_link(links, nextLinkId, TRUE, TRUE, data, now)
        IN  LacksPermission(data) =>
                /\ field_name(o.err) = "permission"
                /\ o.links = links

\* C21: a payload without permission, or with a level that is not allowed,
\* makes create_secret_link fail with a ValidationError and add no link; the
\* error is on the 'permission' field unless the payload's expires_at lies in
\* the past, which is reported first, on 'expires_at'. A successful creation
\* appends one link carrying exactly the requested level, the validated
\* expires_at (null when none is supplied) and the supplied origin,
\* description and extra_data.
C21_CreateChecksPermission ==
    \A data \in LinkPayloads :
        LET o == create_secret_link(links, nextLinkId, TRUE, TRUE, data, now)
        IN  /\ LacksPermission(data) =>
                /\ o.links = links
                /\ field_name(o.err) =
                       IF ExpiresInPast(data) THEN "expires_at" ELSE "permission"
            /\ o.err = OK =>
                /\ ~LacksPermission(data)
                /\ o.links = Append(links, RequestedLink(data, nextLinkId))

\* a creation with a disallowed level was refused while a link created from
\* a full payload is stored
C21_Witness ==
    /\ ret.op = "create_secret_link"
    /\ ret.err = ErrPermInvalid
    /\ Len(links) >= 1
    /\ links[1].origin = Some("api")
    /\ links[1].extra_data = <<"x">>

\* --------------------------------- properties of the parent's two sequences
\* `after` is `before` with one element added at the end
AppendsTo(before, after) ==
    /\ Len(after) = Len(before) + 1
    /\ \A i \in 1..Len(before) : after[i] = before[i]

\* `after` is `before` without its element at position idx: the elements in
\* front keep their position, those behind move one position down
RemovesAt(before, after, idx) ==
    /\ Len(after) = Len(before) - 1
    /\ \A i \in 1..Len(after) :
           after[i] = IF i < idx THEN before[i] ELSE before[i + 1]

\* C22: the links and the grants of a parent are ordered sequences addressed
\* by position. A successful create_secret_link or create_grant appends its
\* element at the end and leaves the position and content of the existing
\* elements unchanged; read_all_secret_links and read_all_grants return the
\* elements in stored order; a successful delete removes one position and
\* shifts only the elements behind it.
C22_OrderedSequences ==
    /\ \A data \in LinkPayloads :
           LET o == create_secret_link(links, nextLinkId, TRUE, TRUE, data, now)
           IN  o.err = OK => AppendsTo(links, o.links)
    /\ \A data \in GrantPayloads, lookup \in SubjectLookups :
           LET o == create_grant(grants, TRUE, TRUE, data, lookup)
           IN  o.err = OK => AppendsTo(grants, o.grants)
    /\ read_all_secret_links(links, TRUE, TRUE).result = Some(links)
    /\ read_all_grants(grants, TRUE, TRUE).result = Some(grants)
    /\ \A link_id \in LinkIdArgs :
           LET o == delete_secret_link(links, TRUE, TRUE, link_id)
           IN  o.err = OK =>
                   \E idx \in 1..Len(links) :
                       /\ links[idx].link_id = link_id
                       /\ RemovesAt(links, o.links, idx)
    /\ \A grant_id \in GrantIdArgs :
           LET o == delete_grant(grants, TRUE, TRUE, grant_id)
           IN  o.err = OK =>
                   /\ grant_id \in 0..(Len(grants) - 1)
                   /\ RemovesAt(grants, o.grants, grant_id + 1)

\* the first of two links was deleted, the second link is now the first, and
\* the parent has two different grants
C22_Witness ==
    /\ ret.op = "delete_secret_link"
    /\ ret.err = OK
    /\ ret.link_id = 1
    /\ Len(links) = 1
    /\ links[1].link_id = 2
    /\ Len(grants) = 2
    /\ grants[1] # grants[2]

\* ------------------------------------------ properties of updating a grant
\* the partial payloads update_grant is examined with
PartialPayloads ==
    PartialGrantPayloads
        \cup {[origin |-> Some("o")], [permission |-> "view", origin |-> None],
              [subject |-> [type |-> "user", id |-> "s2"]]}

\* the field the payload names, the old grant's value when it names none
Named(data, path, old_value) ==
    IF Len(path) = 1
    THEN Get(data, path[1], old_value)
    ELSE IF path[1] \in DOMAIN data /\ path[2] \in DOMAIN data[path[1]]
    THEN data[path[1]][path[2]]
    ELSE old_value

\* the grant a partial update of old_grant with that payload stores
PartiallyUpdated(old_grant, data) ==
    [subject_type |-> Named(data, <<"subject", "type">>, old_grant.subject_type),
     subject_id   |-> Named(data, <<"subject", "id">>, old_grant.subject_id),
     permission   |-> Named(data, <<"permission">>, old_grant.permission),
     origin       |-> Named(data, <<"origin">>, old_grant.origin)]

\* `after` is `before` with the element at position pos replaced by grant
ReplacesAt(before, after, pos, grant) ==
    /\ Len(after) = Len(before)
    /\ pos \in 1..Len(before)
    /\ after[pos] = grant
    /\ \A j \in 1..Len(before) : j # pos => after[j] = before[j]

\* C23: a successful update_grant replaces the grant the index addresses and
\* changes nothing else: the sequence keeps its length and every other grant
\* is unchanged. A full update stores the payload's grant; a partial update
\* takes each of permission, subject.type, subject.id and origin the payload
\* does not name from the prior grant, so that a partial update with an empty
\* payload leaves the grant equal to what it was.
C23_UpdateReplacesOne ==
    \A grant_id \in GrantIdArgs, lookup \in SubjectLookups :
        LET pos == Subscript(Len(grants), grant_id)
        IN  /\ \A data \in GrantPayloads :
                   LET o == update_grant(grants, TRUE, TRUE, grant_id, data,
                                         FALSE, lookup)
                   IN  o.err = OK =>
                           ReplacesAt(grants, o.grants, pos,
                               Grant(data.subject.type, data.subject.id,
                                     data.permission, data.origin))
            /\ \A data \in PartialPayloads :
                   LET o == update_grant(grants, TRUE, TRUE, grant_id, data,
                                         TRUE, lookup)
                   IN  o.err = OK =>
                           /\ ReplacesAt(grants, o.grants, pos,
                                  PartiallyUpdated(grants[pos], data))
                           /\ data = <<>> => o.grants = grants

\* the second of two different grants was updated
C23_Witness ==
    /\ ret.op = "update_grant"
    /\ ret.err = OK
    /\ ret.grant_id = 1
    /\ Len(grants) = 2
    /\ grants[1] # grants[2]
    /\ grants[2].permission = "manage"

\* C24: a successful update_secret_link changes at most the expires_at, the
\* permission_level and the description of the link it addresses: that
\* link's id, origin, extra_data and position, and every other link, are
\* unchanged. A description or permission the payload names replaces the
\* link's; a field the payload does not name keeps its value, so an update
\* with an empty payload leaves the link equal to what it was.
C24_UpdateChangesThreeFields ==
    \A link_id \in LinkIdArgs, data \in LinkPayloads, now2 \in {now, now + 1} :
        LET o   == update_secret_link(links, TRUE, TRUE, link_id, data, now, now2)
            pos == link_index(links, link_id)
        IN  o.err = OK =>
                /\ pos \in 1..Len(links)
                /\ Len(o.links) = Len(links)
                /\ \A j \in 1..Len(links) : j # pos => o.links[j] = links[j]
                /\ o.links[pos].link_id = link_id
                /\ o.links[pos].origin = links[pos].origin
                /\ o.links[pos].extra_data = links[pos].extra_data
                /\ o.links[pos].description =
                       Get(data, "description", links[pos].description)
                /\ o.links[pos].permission_level =
                       Get(data, "permission", links[pos].permission_level)
                /\ "expires_at" \notin DOMAIN data =>
                       o.links[pos].expires_at = links[pos].expires_at
                /\ data = <<>> => o.links = links

\* the description of the second link, created from a full payload, was
\* replaced; its origin and extra_data are those of its creation
C24_Witness ==
    /\ ret.op = "update_secret_link"
    /\ ret.err = OK
    /\ ret.link_id = 2
    /\ Len(links) = 2
    /\ links[2].description = "e"
    /\ links[2].origin = Some("api")
    /\ links[2].extra_data = <<"x">>

ParentRecordIndex == <<"commit parent", "commit record", "index related records">>

\* the outcome of a mutating handler: registrations exactly when it succeeds
Registers(o) == o.done = IF o.err = OK THEN ParentRecordIndex ELSE <<>>

\* C25: every successful mutating link or grant operation registers a commit
\* of the parent, then of the record when there is one, then triggers the
\* reindexing, in the same unit of work; the read operations register no
\* commit and trigger no reindexing, whoever calls them.
C25_CommitThenIndex ==
    /\ \A has_record \in BOOLEAN :
           LET ops == registered(has_record)
           IN  /\ ops[1] = "commit parent"
               /\ ops[Len(ops)] = "index related records"
               /\ Len(ops) = IF has_record THEN 3 ELSE 2
               /\ has_record => ops[2] = "commit record"
    /\ \A data \in LinkPayloads : \A now2 \in {now, now + 1} :
           /\ Registers(create_secret_link(links, nextLinkId, TRUE, TRUE, data, now))
           /\ \A link_id \in LinkIdArgs :
                  Registers(update_secret_link(links, TRUE, TRUE, link_id, data,
                                               now, now2))
    /\ \A link_id \in LinkIdArgs :
           Registers(delete_secret_link(links, TRUE, TRUE, link_id))
    /\ \A data \in GrantPayloads, lookup \in SubjectLookups :
           /\ Registers(create_grant(grants, TRUE, TRUE, data, lookup))
           /\ \A grant_id \in GrantIdArgs :
                  Registers(update_grant(grants, TRUE, TRUE, grant_id, data,
                                         FALSE, lookup))
    /\ \A grant_id \in GrantIdArgs :
           Registers(delete_grant(grants, TRUE, TRUE, grant_id))
    /\ \A who \in Callers :
           /\ read_all_secret_links(links, who[1], who[2]).done = <<>>
           /\ read_all_grants(grants, who[1], who[2]).done = <<>>
           /\ \A link_id \in LinkIdArgs :
                  read_secret_link(links, who[1], who[2], link_id).done = <<>>
           /\ \A grant_id \in GrantIdArgs :
                  read_grant(grants, who[1], who[2], grant_id).done = <<>>

\* a grant was deleted, and so committed and indexed, on a parent with a link
C25_Witness ==
    /\ ret.op = "delete_grant"
    /\ ret.err = OK
    /\ Len(grants) = 1
    /\ Len(links) = 1

ValidationErrors ==
    {ErrFuture, ErrPostpone, ErrPermRequired, ErrPermInvalid, ErrSubject}

\* the outcome on the parent as it is, `o`, and on a parent without links
\* and grants, `empty`, are the same permission-denied outcome
SameDenial(o, empty) ==
    /\ o.err = empty.err
    /\ o.err = PermissionDenied
    /\ o.err # NotFound
    /\ o.err \notin ValidationErrors
    /\ o.done = empty.done

\* C28: for an identity without "manage" on an existing record the outcome of
\* every link and grant operation does not depend on the links and grants of
\* the parent: the permission check runs before the lookup of the link id,
\* the range check of the grant index and the validation of the payload, so
\* the identity never gets a not-found or validation error, whether or not the
\* link id or index exists and whether or not the payload is valid.
C28_DenialBeforeLookup ==
    /\ \A data \in LinkPayloads :
           /\ SameDenial(
                  create_secret_link(links, nextLinkId, TRUE, FALSE, data, now),
                  create_secret_link(<<>>, nextLinkId, TRUE, FALSE, data, now))
           /\ \A link_id \in LinkIdArgs, now2 \in SecondReadings :
                  SameDenial(
                      update_secret_link(links, TRUE, FALSE, link_id, data, now, now2),
                      update_secret_link(<<>>, TRUE, FALSE, link_id, data, now, now2))
    /\ \A link_id \in LinkIdArgs :
           /\ SameDenial(delete_secret_link(links, TRUE, FALSE, link_id),
                         delete_secret_link(<<>>, TRUE, FALSE, link_id))
           /\ SameDenial(read_secret_link(links, TRUE, FALSE, link_id),
                         read_secret_link(<<>>, TRUE, FALSE, link_id))
    /\ SameDenial(read_all_secret_links(links, TRUE, FALSE),
                  read_all_secret_links(<<>>, TRUE, FALSE))
    /\ \A lookup \in SubjectLookups :
           /\ \A data \in GrantPayloads :
                  SameDenial(create_grant(grants, TRUE, FALSE, data, lookup),
                             create_grant(<<>>, TRUE, FALSE, data, lookup))
           /\ \A grant_id \in GrantIdArgs, u \in GrantUpdates :
                  SameDenial(
                      update_grant(grants, TRUE, FALSE, grant_id, u[1], u[2], lookup),
                      update_grant(<<>>, TRUE, FALSE, grant_id, u[1], u[2], lookup))
    /\ \A grant_id \in GrantIdArgs :
           /\ SameDenial(delete_grant(grants, TRUE, FALSE, grant_id),
                         delete_grant(<<>>, TRUE, FALSE, grant_id))
           /\ SameDenial(read_grant(grants, TRUE, FALSE, grant_id),
                         read_grant(<<>>, TRUE, FALSE, grant_id))
    /\ SameDenial(read_all_grants(grants, TRUE, FALSE),
                  read_all_grants(<<>>, TRUE, FALSE))

\* the deletion of a link id the parent does not have was refused with
\* permission denied, on a parent that has a link and a grant
C28_Witness ==
    /\ ret.op = "delete_secret_link"
    /\ ret.err = PermissionDenied
    /\ link_index(links, ret.link_id) = 0
    /\ Len(links) = 1
    /\ Len(grants) = 1

Next ==
    \/ Tick
    \/ CreateSecretLink(ExpPayloads)
    \/ UpdateSecretLink(ExpPayloads)
    \/ DeleteSecretLink

Spec == Init /\ [][Next]_vars

====
